---------------------------- MODULE Spec2Model ----------------------------
(***************************************************************************)
(* Better Color Picker: the recent-colors list, the picker controller, the *)
(* interaction layer (drag mapping, text fields) and the colour math.      *)
(*                                                                         *)
(* JavaScript values are modelled as follows.                              *)
(*   - a string is a sequence of one-character strings, so that            *)
(*     toLowerCase, startsWith, parseInt and the hex formatting are        *)
(*     computed character by character;                                    *)
(*   - null is the one-element sequence NULL (no real string holds a       *)
(*     multi-character element);                                           *)
(*   - a number that may be fractional (h, s, v, l, pointer mapping) is an *)
(*     exact rational [n, d] in lowest terms with d > 0.  IEEE rounding    *)
(*     error of the double arithmetic is not modelled.                     *)
(***************************************************************************)
EXTENDS Integers, Sequences, FiniteSets, TLC

(***************************************************************************)
(* Strings                                                                 *)
(***************************************************************************)
NULL == <<"null">>

\* the JavaScript value undefined
UNDEFINED == <<"undefined">>

Str7(a, b, c, d, e, f) == <<"#", a, b, c, d, e, f>>

HexDigits == <<"0", "1", "2", "3", "4", "5", "6", "7",
               "8", "9", "a", "b", "c", "d", "e", "f">>

UpperHex == <<"A", "B", "C", "D", "E", "F">>

LowerHex == <<"a", "b", "c", "d", "e", "f">>

\* String.prototype.toLowerCase on one character of the alphabet in use
ToLowerChar(ch) ==
    IF \E i \in 1..6 : UpperHex[i] = ch
    THEN LowerHex[CHOOSE i \in 1..6 : UpperHex[i] = ch]
    ELSE IF ch = "X" THEN "x" ELSE ch

ToUpperChar(ch) ==
    IF \E i \in 1..6 : LowerHex[i] = ch
    THEN UpperHex[CHOOSE i \in 1..6 : LowerHex[i] = ch]
    ELSE IF ch = "x" THEN "X" ELSE ch

toLowerCase(str) == [i \in 1..Len(str) |-> ToLowerChar(str[i])]

toUpperCase(str) == [i \in 1..Len(str) |-> ToUpperChar(str[i])]

IsHexChar(ch) == \E i \in 1..16 : HexDigits[i] = ToLowerChar(ch)

HexVal(ch) == (CHOOSE i \in 1..16 : HexDigits[i] = ToLowerChar(ch)) - 1

DecDigits == <<"0", "1", "2", "3", "4", "5", "6", "7", "8", "9">>

IsDecChar(ch) == \E i \in 1..10 : DecDigits[i] = ch

DecVal(ch) == (CHOOSE i \in 1..10 : DecDigits[i] = ch) - 1

(***************************************************************************)
(* Exact rationals                                                         *)
(***************************************************************************)
Abs(a) == IF a < 0 THEN -a ELSE a

RECURSIVE GCD(_, _)
GCD(a, b) == IF b = 0 THEN a ELSE GCD(b, a % b)

Gcd(a, b) == IF a = 0 /\ b = 0 THEN 1 ELSE GCD(Abs(a), Abs(b))

\* n/d in lowest terms, d > 0
Reduce(n, d, g) ==
    IF d < 0 THEN [n |-> -(n \div g), d |-> -(d \div g)]
    ELSE [n |-> n \div g, d |-> d \div g]

R(n, d) == Reduce(n, d, Gcd(n, d))

I(k) == [n |-> k, d |-> 1]

RAddBy(x, y, g) ==
    R(x.n * (y.d \div g) + y.n * (x.d \div g), (x.d \div g) * y.d)

RAdd(x, y) == RAddBy(x, y, Gcd(x.d, y.d))

RNeg(x) == [n |-> -x.n, d |-> x.d]

RSub(x, y) == RAdd(x, RNeg(y))

RMulBy(x, y, g1, g2) ==
    R((x.n \div g1) * (y.n \div g2), (x.d \div g2) * (y.d \div g1))

RMul(x, y) == RMulBy(x, y, Gcd(x.n, y.d), Gcd(y.n, x.d))

\* y /= 0
RDiv(x, y) == RMul(x, R(y.d, y.n))

RLt(x, y) == x.n * y.d < y.n * x.d

RLe(x, y) == x.n * y.d <= y.n * x.d

RAbs(x) == [n |-> Abs(x.n), d |-> x.d]

RFloor(x) == x.n \div x.d

\* Math.round: the nearest integer, a half rounds up
RRound(x) == (2 * x.n + x.d) \div (2 * x.d)

\* x - k * floor(x / k), for an integer k > 0
RModInt(x, k) == R(x.n % (k * x.d), x.d)

RMax(x, y) == IF RLt(x, y) THEN y ELSE x

RMin(x, y) == IF RLt(y, x) THEN y ELSE x

Max(a, b) == IF a < b THEN b ELSE a

Min(a, b) == IF b < a THEN b ELSE a


(***************************************************************************)
(* ColorConversions (utils/ColorConversions.mjs)                           *)
(***************************************************************************)
BLACK_RGB == [r |-> 0, g |-> 0, b |-> 0]

\* hex.replace("#", "") when the string starts with '#'
StripHash(hex) ==
    IF Len(hex) >= 1 /\ hex[1] = "#" THEN SubSeq(hex, 2, Len(hex)) ELSE hex

Byte(hi, lo) == 16 * HexVal(hi) + HexVal(lo)

\* mutant: the length after '#' is not checked, the first six digits are read
hexToRGBAnyLength(hex) ==
    IF hex = NULL \/ hex = UNDEFINED THEN BLACK_RGB
    ELSE LET d == StripHash(hex)
         IN  IF Len(d) >= 6 /\ \A i \in 1..6 : IsHexChar(d[i])
             THEN [r |-> Byte(d[1], d[2]),
                   g |-> Byte(d[3], d[4]),
                   b |-> Byte(d[5], d[6])]
             ELSE BLACK_RGB

\* optional '#', then exactly 6 hex digits of either case; anything else
\* (null and undefined included) is black
hexToRGB(hex) ==
    IF hex = NULL \/ hex = UNDEFINED THEN BLACK_RGB
    ELSE LET d == StripHash(hex)
         IN  IF Len(d) = 6 /\ \A i \in 1..6 : IsHexChar(d[i])
             THEN [r |-> Byte(d[1], d[2]),
                   g |-> Byte(d[3], d[4]),
                   b |-> Byte(d[5], d[6])]
             ELSE BLACK_RGB

\* hue by dominant channel, a negative result normalized by adding 360
HueNorm(raw) == IF RLt(raw, I(0)) THEN RAdd(raw, I(360)) ELSE raw

HueOf(r, g, b, max, delta) ==
    IF delta = 0 THEN I(0)
    ELSE HueNorm(IF max = r THEN R(60 * (g - b), delta)
                 ELSE IF max = g THEN RAdd(R(60 * (b - r), delta), I(120))
                 ELSE RAdd(R(60 * (r - g), delta), I(240)))

\* mutant: saturation is taken relative to 255, not to the largest channel
hsvOfExtremesSatOf255(r, g, b, max, min) ==
    [h |-> HueOf(r, g, b, max, max - min),
     s |-> R(100 * (max - min), 255),
     v |-> R(100 * max, 255)]

\* rgbToHSV once max and min of the channels are known
hsvOfExtremes(r, g, b, max, min) ==
    [h |-> HueOf(r, g, b, max, max - min),
     s |-> IF max = 0 THEN I(0) ELSE R(100 * (max - min), max),
     v |-> R(100 * max, 255)]

rgbToHSV(r, g, b) ==
    hsvOfExtremes(r, g, b, Max(r, Max(g, b)), Min(r, Min(g, b)))

\* the six 60-degree sectors; c, x are chroma and secondary, hue already in [0,360)
Sector(h, c, x) ==
    LET z == I(0)
    IN  IF RLt(h, I(60)) THEN <<c, x, z>>
        ELSE IF RLt(h, I(120)) THEN <<x, c, z>>
        ELSE IF RLt(h, I(180)) THEN <<z, c, x>>
        ELSE IF RLt(h, I(240)) THEN <<z, x, c>>
        ELSE IF RLt(h, I(300)) THEN <<x, z, c>>
        ELSE <<c, z, x>>

\* c * (1 - |((h / 60) mod 2) - 1|)
Secondary(h, c) ==
    RMul(c, RSub(I(1), RAbs(RSub(RDiv(RModInt(h, 120), I(60)), I(1)))))

Channel(p, m) == RRound(RMul(RAdd(p, m), I(255)))

Channels(p, m) ==
    [r |-> Channel(p[1], m), g |-> Channel(p[2], m), b |-> Channel(p[3], m)]

\* sector selection and the offset m added to each channel, then scaled to 0..255
chromaToRGB(hn, c, m) == Channels(Sector(hn, c, Secondary(hn, c)), m)

\* m = v - c
hsvChroma(hn, vn, c) == chromaToRGB(hn, c, RSub(vn, c))

\* c = v * s, on the hue in [0,360) and s, v in [0,1]
hsvToRGBUnit(hn, sn, vn) == hsvChroma(hn, vn, RMul(vn, sn))

\* mutant: no wrap, and a hue of 360 falls outside the six sectors
hsvToRGBNoWrap(h, s, v) ==
    IF RLt(h, I(360))
    THEN hsvToRGBUnit(h, RDiv(s, I(100)), RDiv(v, I(100)))
    ELSE Channels(<<I(0), I(0), I(0)>>,
                  RSub(RDiv(v, I(100)), RMul(RDiv(v, I(100)), RDiv(s, I(100)))))

hsvToRGB(h, s, v) ==
    hsvToRGBUnit(RModInt(h, 360), RDiv(s, I(100)), RDiv(v, I(100)))

\* n.toString(16).padStart(2, "0") for 0 <= n <= 255
Hex2(n) == <<HexDigits[(n \div 16) + 1], HexDigits[(n % 16) + 1]>>

rgbToHexString(rgb) == <<"#">> \o Hex2(rgb.r) \o Hex2(rgb.g) \o Hex2(rgb.b)

rgbRecToHSV(rgb) == rgbToHSV(rgb.r, rgb.g, rgb.b)

hexToHSV(hex) == rgbRecToHSV(hexToRGB(hex))

hsvToHex(hsv) == rgbToHexString(hsvToRGB(hsv.h, hsv.s, hsv.v))

\* l = (max + min) / 2; s = 0 when achromatic, else delta / (1 - |2l - 1|)
\* 1 - |2l - 1|, l in [0,1]
LightnessSpan(l) == RSub(I(1), RAbs(RSub(RMul(I(2), l), I(1))))

hslOfSpan(r, g, b, max, delta, l, den) ==
    [h |-> HueOf(r, g, b, max, delta),
     s |-> IF delta = 0 \/ den.n = 0 THEN I(0)
           ELSE RMul(I(100), RDiv(R(delta, 255), den)),
     l |-> RMul(I(100), l)]

hslOfLightness(r, g, b, max, delta, l) ==
    hslOfSpan(r, g, b, max, delta, l, LightnessSpan(l))

\* rgbToHSL once max and min of the channels are known
hslOfExtremes(r, g, b, max, min) ==
    hslOfLightness(r, g, b, max, max - min, R(max + min, 510))

rgbToHSL(r, g, b) ==
    hslOfExtremes(r, g, b, Max(r, Max(g, b)), Min(r, Min(g, b)))

\* m = l - c / 2
hslChroma(hn, ln, c) == chromaToRGB(hn, c, RSub(ln, RDiv(c, I(2))))

\* c = (1 - |2l - 1|) * s, on the hue in [0,360) and s, l in [0,1]
hslToRGBUnit(hn, sn, ln) == hslChroma(hn, ln, RMul(LightnessSpan(ln), sn))

hslToRGB(h, s, l) ==
    hslToRGBUnit(RModInt(h, 360), RDiv(s, I(100)), RDiv(l, I(100)))

rgbRecToHSL(rgb) == rgbToHSL(rgb.r, rgb.g, rgb.b)

hexToHSL(hex) == rgbRecToHSL(hexToRGB(hex))

hslToHex(hsl) == rgbToHexString(hslToRGB(hsl.h, hsl.s, hsl.l))


(***************************************************************************)
(* Bounds and sample inputs                                                *)
(***************************************************************************)
\* largest capacity a RecentColorsManager is constructed with in SpecRC
MaxCap == 3

\* host <input type="color"> elements on the page
NumInputs == 2

\* setTimeout callbacks of show that may be pending at once
MaxTimers == 1

\* eyedropper activations that may be in flight at once
MaxActivations == 1

\* capacity of the manager the picker specifications construct
\* (content.mjs constructs it with DefaultMaxColors)
PickerCap == 2

\* new RecentColorsManager() without an argument
DefaultMaxColors == 14

RED == Str7("f", "f", "0", "0", "0", "0")

RED_UPPER == Str7("F", "F", "0", "0", "0", "0")

GREEN == Str7("0", "0", "f", "f", "0", "0")

GREEN_UPPER == Str7("0", "0", "F", "F", "0", "0")

BLUE == Str7("0", "0", "0", "0", "f", "f")

CYAN == Str7("0", "0", "f", "f", "f", "f")

BLACK == Str7("0", "0", "0", "0", "0", "0")

\* strings passed to add in SpecRC
RCStrings == {RED, RED_UPPER, GREEN, GREEN_UPPER, BLUE, CYAN}

(***************************************************************************)
(* State                                                                   *)
(***************************************************************************)
VARIABLES
    colors,         \* RecentColorsManager.colors
    maxColors,      \* RecentColorsManager.maxColors
    lastAdded,      \* history: the argument of the latest add, NULL before any
    stored,         \* browser.storage.local: <<>> without the key recentColors, else <<its list>>
    writes,         \* storage.local.set calls in flight, oldest first: the lists they carry
    loads,          \* storage.local.get calls in flight
    currentInput,   \* PickerController.currentInput: 0 (null) or a host input
    pickerElement,  \* PickerController.pickerElement is not null
    interactions,   \* PickerController.interactions is not null
    domPickers,     \* picker elements attached to document.body
    window,         \* window.scrollX, scrollY, innerWidth, innerHeight
    position,       \* <<>> without a picker, else <<its style top and left>>
    swatches,       \* recent-color swatches rendered in the open picker
    listening,      \* the controller's four global listeners are registered
    timers,         \* pending setTimeout callbacks scheduled by show
    value,          \* value of each host input
    hostLog,        \* the latest write to a host input and the events dispatched after it
    currentHSV,     \* PickerInteractions.currentHSV
    isDraggingSL,   \* PickerInteractions.isDraggingSL
    isDraggingHue,  \* PickerInteractions.isDraggingHue
    currentFormat,  \* PickerInteractions.currentFormat
    hidden,         \* the field containers that carry the class bcp-hidden
    fields,         \* text of the hex, RGB and HSL fields of the open picker
    capturing,      \* Eyedropper.activate calls awaiting the screenshot
    overlays,       \* eyedropper overlays attached to document.body
    cancelled,      \* history: the latest overlay to go was dismissed with Escape
    canvases,       \* per overlay, oldest first: has img.onload drawn the screenshot
    lastReply,      \* history: what the latest capture request settled with
    startedFor,     \* history: per activation in flight, oldest first, the input current at its start
    fnArg,          \* argument of the pure function a specification applies
    fnResult        \* <<>> until applied, then <<its result>>

rcVars == <<colors, maxColors, lastAdded, stored, writes, loads>>

ctlVars == <<currentInput, pickerElement, interactions, domPickers, window, position, swatches,
             listening, timers, value, hostLog>>

intVars == <<currentHSV, isDraggingSL, isDraggingHue, currentFormat, hidden,
             fields>>

eyeVars == <<capturing, overlays, cancelled, canvases, lastReply, startedFor>>

pureVars == <<fnArg, fnResult>>

vars == <<rcVars, ctlVars, intVars, eyeVars, pureVars>>

(***************************************************************************)
(* RecentColorsManager (storage/RecentColors.mjs)                          *)
(***************************************************************************)
\* this.colors.filter((c) => c.toLowerCase() !== color.toLowerCase())
RECURSIVE FilterOut(_, _)
FilterOut(L, color) ==
    IF L = <<>> THEN <<>>
    ELSE IF toLowerCase(Head(L)) /= toLowerCase(color)
         THEN <<Head(L)>> \o FilterOut(Tail(L), color)
         ELSE FilterOut(Tail(L), color)

\* Array.prototype.slice(0, n), n >= 0
Slice0(L, n) == SubSeq(L, 1, Min(n, Len(L)))

\* mutant: the duplicate is looked for with an exact comparison
addCaseSensitive(L, color, max) ==
    LET unshifted == <<color>> \o SelectSeq(L, LAMBDA c : c /= color)
    IN  IF Len(unshifted) > max THEN Slice0(unshifted, max) ELSE unshifted

\* mutant: the size is not limited
addNoLimit(L, color, max) == <<color>> \o FilterOut(L, color)

\* mutant: the colour is stored in lower case
addLowercased(L, color, max) ==
    LET unshifted == <<toLowerCase(color)>> \o FilterOut(L, color)
    IN  IF Len(unshifted) > max THEN Slice0(unshifted, max) ELSE unshifted

\* the list after add(color): filter, unshift, limit size
add(L, color, max) ==
    LET unshifted == <<color>> \o FilterOut(L, color)
    IN  IF Len(unshifted) > max THEN Slice0(unshifted, max) ELSE unshifted

\* the effect of recentColorsManager.add(color) on the manager
AddEffect(color) ==
    /\ colors' = add(colors, color, maxColors)
    /\ lastAdded' = color
    /\ writes' = Append(writes, colors')
    /\ UNCHANGED <<maxColors, stored, loads>>

\* save() called on its own: the set request carries this.colors
SaveCall ==
    /\ writes' = Append(writes, colors)
    /\ UNCHANGED <<colors, maxColors, lastAdded, stored, loads,
                   ctlVars, intVars, eyeVars, pureVars>>

\* mutant: the newest set request settles first
WriteSettlesNewestFirst(ok) ==
    /\ writes /= <<>>
    /\ writes' = SubSeq(writes, 1, Len(writes) - 1)
    /\ stored' = IF ok THEN <<writes[Len(writes)]>> ELSE stored
    /\ UNCHANGED <<colors, maxColors, lastAdded, loads,
                   ctlVars, intVars, eyeVars, pureVars>>

\* the oldest set request settles: fulfilled, the store holds its list;
\* rejected, save's catch logs the error and nothing changes
WriteSettles(ok) ==
    /\ writes /= <<>>
    /\ writes' = Tail(writes)
    /\ stored' = IF ok THEN <<Head(writes)>> ELSE stored
    /\ UNCHANGED <<colors, maxColors, lastAdded, loads,
                   ctlVars, intVars, eyeVars, pureVars>>

\* load() up to its await: the get request is sent
LoadStarts ==
    /\ loads' = loads + 1
    /\ UNCHANGED <<colors, maxColors, lastAdded, stored, writes,
                   ctlVars, intVars, eyeVars, pureVars>>

\* this.colors after load() of a manager holding L, the store being S
loadResult(S, L) == IF S /= <<>> THEN S[1] ELSE L

\* mutant: a rejected get request empties the list
LoadSettlesClears(ok) ==
    /\ loads > 0
    /\ loads' = loads - 1
    /\ colors' = IF ok THEN loadResult(stored, colors) ELSE <<>>
    /\ UNCHANGED <<maxColors, lastAdded, stored, writes,
                   ctlVars, intVars, eyeVars, pureVars>>

\* a get request settles: fulfilled, load takes result.recentColors when the
\* key is there; rejected, load's catch logs the error
LoadSettles(ok) ==
    /\ loads > 0
    /\ loads' = loads - 1
    /\ colors' = IF ok THEN loadResult(stored, colors) ELSE colors
    /\ UNCHANGED <<maxColors, lastAdded, stored, writes,
                   ctlVars, intVars, eyeVars, pureVars>>


(***************************************************************************)
(* Number <-> string conversions used by the text fields                   *)
(***************************************************************************)
RECURSIVE NatToStr(_)
NatToStr(n) ==
    IF n < 10 THEN <<DecDigits[n + 1]>>
    ELSE NatToStr(n \div 10) \o <<DecDigits[(n % 10) + 1]>>

\* String(n) for an integer n
IntToStr(n) == IF n < 0 THEN <<"-">> \o NatToStr(-n) ELSE NatToStr(n)

RECURSIVE DigitsPrefix(_, _)
\* value of the longest prefix of decimal digits of str, continuing from acc
DigitsPrefix(str, acc) ==
    IF str = <<>> \/ ~IsDecChar(Head(str)) THEN acc
    ELSE DigitsPrefix(Tail(str), 10 * acc + DecVal(Head(str)))

\* parseInt(str): <<n>> for a number, <<>> for NaN
parseInt(str) ==
    LET neg == Len(str) >= 1 /\ str[1] = "-"
        body == IF neg THEN Tail(str) ELSE str
    IN  IF body = <<>> \/ ~IsDecChar(Head(body)) THEN <<>>
        ELSE <<(IF neg THEN -1 ELSE 1) * DigitsPrefix(body, 0)>>

\* parseInt(str) || 0
parseIntOr0(str) ==
    LET p == parseInt(str)
    IN  IF p = <<>> THEN 0 ELSE p[1]

\* Math.max(lo, Math.min(hi, n))
Clamp(n, lo, hi) == Max(lo, Min(hi, n))

\* mutant: the channel is not padded to two digits
byteToHexNoPad(x) ==
    IF x < 16 THEN <<HexDigits[x + 1]>>
    ELSE <<HexDigits[(x \div 16) + 1], HexDigits[(x % 16) + 1]>>

\* x.toString(16).padStart(2, "0") for 0 <= x <= 255
byteToHex(x) == <<HexDigits[(x \div 16) + 1], HexDigits[(x % 16) + 1]>>

\* "#" + [r, g, b].map((x) => x.toString(16).padStart(2, "0")).join("")
channelsToHex(r, g, b) == <<"#">> \o byteToHex(r) \o byteToHex(g) \o byteToHex(b)

(***************************************************************************)
(* PickerInteractions (picker/PickerInteractions.mjs)                      *)
(***************************************************************************)
\* bounding rectangles of the two controls, as getBoundingClientRect gives them
SLRect == [left |-> 10, top |-> 20, width |-> 200, height |-> 100]

HueRect == [left |-> 10, top |-> 130, width |-> 180, height |-> 12]

\* the constructor's currentHSV
DefaultHSV == [h |-> I(0), s |-> I(100), v |-> I(100)]

NoFields == [hex |-> <<>>, rgb |-> <<<<>>, <<>>, <<>>>>, hsl |-> <<<<>>, <<>>, <<>>>>]

\* mutant: the pointer is not clamped to the rect
MapSLNoClamp(e, rect) ==
    [s |-> R(100 * (e.clientX - rect.left), rect.width),
     v |-> RSub(I(100), R(100 * (e.clientY - rect.top), rect.height))]

\* _updateSL: the pointer mapped to s and v on the surface rect
MapSL(e, rect) ==
    LET x == Max(0, Min(e.clientX - rect.left, rect.width))
        y == Max(0, Min(e.clientY - rect.top, rect.height))
    IN  [s |-> R(100 * x, rect.width),
         v |-> RSub(I(100), R(100 * y, rect.height))]

\* _updateHue: the pointer mapped to h on the track rect
MapHue(e, rect) ==
    LET x == Max(0, Min(e.clientX - rect.left, rect.width))
    IN  R(360 * x, rect.width)

\* the hex, RGB and HSL field texts _updateColorDisplay derives from hsv
\* the three field groups: the hex text, the RGB channels, the rounded HSL
FieldTexts(hexText, rgb, hsl) ==
    [hex |-> hexText,
     rgb |-> <<IntToStr(rgb.r), IntToStr(rgb.g), IntToStr(rgb.b)>>,
     hsl |-> <<IntToStr(RRound(hsl.h)), IntToStr(RRound(hsl.s)),
               IntToStr(RRound(hsl.l))>>]

\* const hsl = rgbToHSL(rgb.r, rgb.g, rgb.b)
FieldsFromRGB(hexText, rgb) == FieldTexts(hexText, rgb, rgbRecToHSL(rgb))

\* const rgb = hsvToRGB(hsv.h, hsv.s, hsv.v)
FieldsFromHSV(hexText, hsv) ==
    FieldsFromRGB(hexText, hsvToRGB(hsv.h, hsv.s, hsv.v))

DisplayFields(hsv) == FieldsFromHSV(toUpperCase(hsvToHex(hsv)), hsv)

\* mutant: 'change' is dispatched before 'input'
HostEffectsChangeFirst(i, color) ==
    <<[op |-> "write", host |-> i, value |-> color],
      [op |-> "change", host |-> i, value |-> color],
      [op |-> "input", host |-> i, value |-> color]>>

\* input.value = color; dispatchEvent(input); dispatchEvent(change): each entry
\* carries the value the host holds at that moment
HostEffects(i, color) ==
    <<[op |-> "write", host |-> i, value |-> color],
      [op |-> "input", host |-> i, value |-> color],
      [op |-> "change", host |-> i, value |-> color]>>

\* _updateColorDisplay(updateInputs) with this.currentHSV = hsv and the field
\* texts flds: the text fields when asked, and always the host input
UpdateColorDisplay(hsv, flds, updateInputs) ==
    /\ fields' = IF updateInputs THEN DisplayFields(hsv) ELSE flds
    /\ value' = [value EXCEPT ![currentInput] = hsvToHex(hsv)]
    /\ hostLog' = HostEffects(currentInput, hsvToHex(hsv))

\* mutant: the surface mapping also resets the hue
UpdateSLResetsHue(e) ==
    LET m == MapSL(e, SLRect)
        hsv == [h |-> I(0), s |-> m.s, v |-> m.v]
    IN  /\ currentHSV' = hsv
        /\ UpdateColorDisplay(hsv, fields, TRUE)

\* _updateSL(e)
UpdateSL(e) ==
    LET m == MapSL(e, SLRect)
        hsv == [currentHSV EXCEPT !.s = m.s, !.v = m.v]
    IN  /\ currentHSV' = hsv
        /\ UpdateColorDisplay(hsv, fields, TRUE)

\* _updateHue(e)
UpdateHue(e) ==
    LET hsv == [currentHSV EXCEPT !.h = MapHue(e, HueRect)]
    IN  /\ currentHSV' = hsv
        /\ UpdateColorDisplay(hsv, fields, TRUE)

unchangedByInteraction ==
    UNCHANGED <<rcVars, eyeVars, pureVars, currentInput, pickerElement,
                interactions, domPickers, window, position, swatches, listening, timers>>

\* mousedown on the saturation/lightness area
HandleSLMouseDown(e) ==
    /\ interactions
    /\ isDraggingSL' = TRUE
    /\ UpdateSL(e)
    /\ UNCHANGED <<isDraggingHue, currentFormat, hidden>>
    /\ unchangedByInteraction

\* mousedown on the hue slider
HandleHueMouseDown(e) ==
    /\ interactions
    /\ isDraggingHue' = TRUE
    /\ UpdateHue(e)
    /\ UNCHANGED <<isDraggingSL, currentFormat, hidden>>
    /\ unchangedByInteraction

\* mutant: a move maps the pointer whether or not a drag is in progress
HandleMouseMoveAlways(e) ==
    /\ interactions
    /\ IF isDraggingHue THEN UpdateHue(e) ELSE UpdateSL(e)
    /\ UNCHANGED <<isDraggingSL, isDraggingHue, currentFormat, hidden>>
    /\ unchangedByInteraction

\* mousemove on document
HandleMouseMove(e) ==
    /\ interactions
    /\ IF isDraggingSL THEN UpdateSL(e)
       ELSE IF isDraggingHue THEN UpdateHue(e)
       ELSE UNCHANGED <<currentHSV, fields, value, hostLog>>
    /\ UNCHANGED <<isDraggingSL, isDraggingHue, currentFormat, hidden>>
    /\ unchangedByInteraction

\* mouseup on document
HandleMouseUp ==
    /\ interactions
    /\ isDraggingSL' = FALSE
    /\ isDraggingHue' = FALSE
    /\ UNCHANGED <<currentHSV, currentFormat, hidden, fields, value, hostLog>>
    /\ unchangedByInteraction


\* mutant: the pattern without its end anchor, /^#[0-9A-Fa-f]{6}/
IsHashHex6Unanchored(str) ==
    /\ Len(str) >= 7
    /\ str[1] = "#"
    /\ \A i \in 2..7 : IsHexChar(str[i])

\* /^#[0-9A-Fa-f]{6}$/.test(str)
IsHashHex6(str) ==
    /\ Len(str) = 7
    /\ str[1] = "#"
    /\ \A i \in 2..7 : IsHexChar(str[i])

\* the value _handleHexInput tests: '#' prepended unless already there
WithHash(text) ==
    IF Len(text) >= 1 /\ text[1] = "#" THEN text ELSE <<"#">> \o text

\* input event on the hex field, whose text is now `text`
HandleHexInput(text) ==
    /\ interactions
    /\ LET flds == [fields EXCEPT !.hex = text]
           v == WithHash(text)
       IN  IF IsHashHex6(v)
           THEN /\ currentHSV' = hexToHSV(v)
                /\ UpdateColorDisplay(hexToHSV(v), flds, FALSE)
           ELSE /\ fields' = flds
                /\ UNCHANGED <<currentHSV, value, hostLog>>
    /\ UNCHANGED <<isDraggingSL, isDraggingHue, currentFormat, hidden>>
    /\ unchangedByInteraction

\* blur of the hex field
HandleHexBlur ==
    /\ interactions
    /\ UpdateColorDisplay(currentHSV, fields, TRUE)
    /\ UNCHANGED <<currentHSV, isDraggingSL, isDraggingHue, currentFormat, hidden>>
    /\ unchangedByInteraction

\* input event on RGB field k, whose text is now `text`
HandleRGBInput(k, text) ==
    /\ interactions
    /\ LET flds == [fields EXCEPT !.rgb[k] = text]
           rgb == [r |-> Clamp(parseIntOr0(flds.rgb[1]), 0, 255),
                   g |-> Clamp(parseIntOr0(flds.rgb[2]), 0, 255),
                   b |-> Clamp(parseIntOr0(flds.rgb[3]), 0, 255)]
           hsv == hexToHSV(channelsToHex(rgb.r, rgb.g, rgb.b))
       IN  /\ currentHSV' = hsv
           /\ UpdateColorDisplay(hsv, flds, FALSE)
    /\ UNCHANGED <<isDraggingSL, isDraggingHue, currentFormat, hidden>>
    /\ unchangedByInteraction

\* input event on HSL field k, whose text is now `text`
HandleHSLInput(k, text) ==
    /\ interactions
    /\ LET flds == [fields EXCEPT !.hsl[k] = text]
           hsl == [h |-> I(Clamp(parseIntOr0(flds.hsl[1]), 0, 360)),
                   s |-> I(Clamp(parseIntOr0(flds.hsl[2]), 0, 100)),
                   l |-> I(Clamp(parseIntOr0(flds.hsl[3]), 0, 100))]
           hsv == hexToHSV(hslToHex(hsl))
       IN  /\ currentHSV' = hsv
           /\ UpdateColorDisplay(hsv, flds, FALSE)
    /\ UNCHANGED <<isDraggingSL, isDraggingHue, currentFormat, hidden>>
    /\ unchangedByInteraction

\* the containers createPickerElement builds hidden: RGB and HSL
InitialHidden == {"rgb", "hsl"}

NextFormat(f) == IF f = "hex" THEN "rgb" ELSE IF f = "rgb" THEN "hsl" ELSE "hex"

\* mutant: the switch to HSL leaves the RGB container as it is
HiddenAfterToggleKeepsRGB(f, H) ==
    IF f = "hex" THEN ((H \cup {"hex"}) \ {"rgb"}) \cup {"hsl"}
    ELSE IF f = "rgb" THEN (H \cup {"hex"}) \ {"hsl"}
    ELSE ((H \ {"hex"}) \cup {"rgb"}) \cup {"hsl"}

\* the classList.add and classList.remove calls of the branch taken from format f
HiddenAfterToggle(f, H) ==
    IF f = "hex" THEN ((H \cup {"hex"}) \ {"rgb"}) \cup {"hsl"}
    ELSE IF f = "rgb" THEN ((H \cup {"hex"}) \cup {"rgb"}) \ {"hsl"}
    ELSE ((H \ {"hex"}) \cup {"rgb"}) \cup {"hsl"}

\* click on the format toggle
HandleFormatToggle ==
    /\ interactions
    /\ currentFormat' = NextFormat(currentFormat)
    /\ hidden' = HiddenAfterToggle(currentFormat, hidden)
    /\ UpdateColorDisplay(currentHSV, fields, TRUE)
    /\ UNCHANGED <<currentHSV, isDraggingSL, isDraggingHue>>
    /\ unchangedByInteraction

\* updateFromHex(hexColor): HSV and the text fields, not the host input
UpdateFromHexFields(hexColor) ==
    FieldsFromHSV(toUpperCase(hexColor), hexToHSV(hexColor))

(***************************************************************************)
(* PickerPositioning (picker/PickerPositioning.mjs)                        *)
(***************************************************************************)
\* mutant: the result is not floored at 0
calculatePositionNoFloor(picker, rect, win) ==
    [top |-> IF rect.bottom + picker.offsetHeight > win.innerHeight
             THEN rect.top + win.scrollY - picker.offsetHeight - 5
             ELSE rect.bottom + win.scrollY + 5,
     left |-> IF rect.left + picker.offsetWidth > win.innerWidth
              THEN win.innerWidth - picker.offsetWidth - 10 + win.scrollX
              ELSE rect.left + win.scrollX]

\* mutant: the panel flips and shifts already at equality
calculatePositionNonStrict(picker, rect, win) ==
    [top |-> Max(0, IF rect.bottom + picker.offsetHeight >= win.innerHeight
                    THEN rect.top + win.scrollY - picker.offsetHeight - 5
                    ELSE rect.bottom + win.scrollY + 5),
     left |-> Max(0, IF rect.left + picker.offsetWidth >= win.innerWidth
                     THEN win.innerWidth - picker.offsetWidth - 10 + win.scrollX
                     ELSE rect.left + win.scrollX)]

\* calculatePosition(picker, input): rect is input.getBoundingClientRect(),
\* win the window's scroll offsets and inner size
calculatePosition(picker, rect, win) ==
    [top |-> Max(0, IF rect.bottom + picker.offsetHeight > win.innerHeight
                    THEN rect.top + win.scrollY - picker.offsetHeight - 5
                    ELSE rect.bottom + win.scrollY + 5),
     left |-> Max(0, IF rect.left + picker.offsetWidth > win.innerWidth
                     THEN win.innerWidth - picker.offsetWidth - 10 + win.scrollX
                     ELSE rect.left + win.scrollX)]

(***************************************************************************)
(* PickerController (picker/PickerController.mjs)                          *)
(***************************************************************************)
Inputs == 1..NumInputs

\* picker.offsetHeight and picker.offsetWidth of the panel
PickerSize == [offsetHeight |-> 400, offsetWidth |-> 300]

\* input.getBoundingClientRect() of host input i
InputRect(i) ==
    [top |-> 100 * i, bottom |-> 100 * i + 30, left |-> 200, right |-> 300]

\* the window when the page is loaded, not scrolled
InitialWindow ==
    [scrollX |-> 0, scrollY |-> 0, innerWidth |-> 1024, innerHeight |-> 768]

\* value of each host input when the page is loaded
InitialValue(i) == IF i = 1 THEN RED ELSE CYAN

\* mutant: the picker starts from black whatever the input holds
InitialColorAlwaysBlack(v) == BLACK

\* inputElement.value || "#000000"
InitialColor(v) == IF v = <<>> THEN BLACK ELSE v

\* close() adds the host value when a picker is open and the value is non-empty
ClosingAdds(val) ==
    pickerElement /\ currentInput /= 0 /\ val[currentInput] /= <<>>

\* mutant: close does not add the host value
ColorsAfterCloseStale(L, val) == L

\* this.colors after close(), run with this.colors = L and host values val
ColorsAfterClose(L, val) ==
    IF ClosingAdds(val) THEN add(L, val[currentInput], maxColors) ELSE L

LastAfterClose(last, val) ==
    IF ClosingAdds(val) THEN val[currentInput] ELSE last

\* set requests in flight after close(), run with this.colors = L and W in flight
WritesAfterClose(W, L, val) ==
    IF ClosingAdds(val) THEN Append(W, ColorsAfterClose(L, val)) ELSE W

\* mutant: close leaves the picker element attached
DomAfterCloseKept == domPickers

\* picker elements attached after close(): this.pickerElement.remove()
DomAfterClose == IF pickerElement THEN domPickers - 1 ELSE domPickers

\* mutant: close leaves this.currentInput as it was
InputAfterCloseKept == currentInput

\* this.currentInput after close(): null, with or without a picker
InputAfterClose == 0

\* mutant: close skips interactions.cleanup() and keeps the interaction layer
InteractionsAfterCloseKept == interactions

\* this.interactions after close(): cleanup() removes the handlers of the
\* interaction layer, then the field is set to null
InteractionsAfterClose == FALSE

\* close(), run with this.colors = L, set requests W in flight, lastAdded = last,
\* host values val and host log log
CloseEffect(L, W, last, val, log) ==
    /\ colors' = ColorsAfterClose(L, val)
    /\ writes' = WritesAfterClose(W, L, val)
    /\ lastAdded' = LastAfterClose(last, val)
    /\ value' = val
    /\ hostLog' = log
    /\ interactions' = InteractionsAfterClose
    /\ listening' = IF pickerElement THEN FALSE ELSE listening
    /\ domPickers' = DomAfterClose
    /\ position' = IF pickerElement THEN <<>> ELSE position
    /\ pickerElement' = FALSE
    /\ currentInput' = InputAfterClose
    /\ swatches' = <<>>
    /\ currentHSV' = DefaultHSV
    /\ isDraggingSL' = FALSE
    /\ isDraggingHue' = FALSE
    /\ currentFormat' = "hex"
    /\ hidden' = {}
    /\ fields' = NoFields
    /\ UNCHANGED <<maxColors, stored, loads, timers, window, eyeVars, pureVars>>

close == CloseEffect(colors, writes, lastAdded, value, hostLog)

\* show(inputElement) past its first test: close(), then the picker is built for
\* input i and the registration of the global listeners is deferred
showOpens(i) ==
    /\ timers < MaxTimers
    /\ colors' = ColorsAfterClose(colors, value)
    /\ writes' = WritesAfterClose(writes, colors, value)
    /\ lastAdded' = LastAfterClose(lastAdded, value)
    /\ currentInput' = i
    /\ pickerElement' = TRUE
    /\ domPickers' = DomAfterClose + 1
    /\ position' = <<calculatePosition(PickerSize, InputRect(i), window)>>
    /\ interactions' = TRUE
    /\ currentHSV' = hexToHSV(InitialColor(value[i]))
    /\ isDraggingSL' = FALSE
    /\ isDraggingHue' = FALSE
    /\ currentFormat' = "hex"
    /\ hidden' = InitialHidden
    /\ fields' = DisplayFields(currentHSV')
    /\ value' = [value EXCEPT ![i] = hsvToHex(currentHSV')]
    /\ hostLog' = HostEffects(i, hsvToHex(currentHSV'))
    /\ swatches' = colors'
    /\ listening' = IF pickerElement THEN FALSE ELSE listening
    /\ timers' = timers + 1
    /\ UNCHANGED <<maxColors, stored, loads, window, eyeVars, pureVars>>

\* mutant: show without the test for a picker already open on the same input
showAlwaysOpens(i) == showOpens(i)

\* show(inputElement)
show(i) ==
    IF pickerElement /\ currentInput = i
    THEN UNCHANGED vars
    ELSE showOpens(i)

\* the callback show passes to setTimeout
TimerFires ==
    /\ timers > 0
    /\ timers' = timers - 1
    /\ listening' = TRUE
    /\ UNCHANGED <<rcVars, intVars, eyeVars, pureVars, currentInput,
                   pickerElement, interactions, domPickers, window, position, swatches, value,
                   hostLog>>

\* keydown on document; only Escape acts
HandleKeydown(key) ==
    /\ listening
    /\ IF pickerElement /\ key = "Escape" THEN close ELSE UNCHANGED vars

\* scroll on document: the bound close
HandleScroll ==
    /\ listening
    /\ close

\* mutant: _handleOutsideClick without the test for the eyedropper overlay
HandleOutsideClickNoOverlayTest(target) ==
    /\ listening
    /\ target = "overlay" => overlays > 0
    /\ IF /\ pickerElement
          /\ target /= "picker"
          /\ target /= "currentInput"
       THEN close
       ELSE UNCHANGED vars

\* mousedown on document; target is where the event happened
HandleOutsideClick(target) ==
    /\ listening
    /\ target = "overlay" => overlays > 0
    /\ IF /\ pickerElement
          /\ target /= "picker"
          /\ target /= "currentInput"
          /\ target /= "overlay"
       THEN close
       ELSE UNCHANGED vars

\* mutant: _handleResize leaves the picker where it was
HandleResizeKeepsPosition(size) ==
    /\ window' = [window EXCEPT !.innerWidth = size.innerWidth,
                                !.innerHeight = size.innerHeight]
    /\ UNCHANGED <<rcVars, intVars, eyeVars, pureVars, currentInput,
                   pickerElement, interactions, domPickers, position, swatches,
                   listening, timers, value, hostLog>>

\* the window is resized to size; with the listeners registered _handleResize
\* positions the open picker again
HandleResize(size) ==
    /\ window' = [window EXCEPT !.innerWidth = size.innerWidth,
                                !.innerHeight = size.innerHeight]
    /\ position' = IF listening /\ pickerElement /\ currentInput /= 0
                   THEN <<calculatePosition(PickerSize, InputRect(currentInput),
                                           window')>>
                   ELSE position
    /\ UNCHANGED <<rcVars, intVars, eyeVars, pureVars, currentInput,
                   pickerElement, interactions, domPickers, swatches,
                   listening, timers, value, hostLog>>

\* Enter keydown in the hex, RGB or HSL field: onColorChange("close")
HandleFieldKeydown(key) ==
    /\ interactions
    /\ IF key = "Enter" THEN close ELSE UNCHANGED vars

\* mutant: the clicked colour is added and the picker closed, but the colour
\* is not written to the host input
HandleRecentColorClickNoWrite(k) ==
    /\ pickerElement
    /\ k \in 1..Len(swatches)
    /\ IF currentInput /= 0
       THEN LET color == swatches[k]
            IN  CloseEffect(add(colors, color, maxColors),
                            Append(writes, add(colors, color, maxColors)),
                            color, value, HostEffects(currentInput, color))
       ELSE UNCHANGED vars

\* click on the k-th recent-color swatch
HandleRecentColorClick(k) ==
    /\ pickerElement
    /\ k \in 1..Len(swatches)
    /\ IF currentInput /= 0
       THEN LET color == swatches[k]
                val == [value EXCEPT ![currentInput] = color]
            IN  CloseEffect(add(colors, color, maxColors),
                            Append(writes, add(colors, color, maxColors)),
                            color, val, HostEffects(currentInput, color))
       ELSE UNCHANGED vars


\* getColorAtPoint(ctx, x, y), px being the pixel read at that point
getColorAtPoint(px) ==
    IF px = <<>> THEN NULL ELSE channelsToHex(px[1], px[2], px[3])

\* L without its k-th element
RemoveAt(L, k) == SubSeq(L, 1, k - 1) \o SubSeq(L, k + 1, Len(L))

\* click on the eyedropper button with fewer than max activations in flight:
\* Eyedropper.activate() sends the capture request
ActivateWithin(max) ==
    /\ pickerElement
    /\ capturing + overlays < max
    /\ capturing' = capturing + 1
    /\ startedFor' = Append(startedFor, currentInput)
    /\ UNCHANGED <<rcVars, ctlVars, intVars, pureVars, overlays, cancelled,
                   canvases, lastReply>>

\* click on the eyedropper button
HandleEyedropperClick == ActivateWithin(MaxActivations)

\* mutant: the picked colour is written to the host but updateFromHex is not called
EyedropperPickedNoSync(color) ==
    IF color /= NULL /\ currentInput /= 0
    THEN /\ value' = [value EXCEPT ![currentInput] = color]
         /\ hostLog' = HostEffects(currentInput, color)
         /\ UNCHANGED <<currentHSV, fields>>
    ELSE UNCHANGED <<value, hostLog, currentHSV, fields>>

\* the rest of the eyedropper button's click handler, once activate resolved to color
EyedropperPicked(color) ==
    IF color /= NULL /\ currentInput /= 0
    THEN /\ value' = [value EXCEPT ![currentInput] = color]
         /\ hostLog' = HostEffects(currentInput, color)
         /\ IF interactions
            THEN /\ currentHSV' = hexToHSV(color)
                 /\ fields' = UpdateFromHexFields(color)
            ELSE UNCHANGED <<currentHSV, fields>>
    ELSE UNCHANGED <<value, hostLog, currentHSV, fields>>

\* what browser.runtime.sendMessage settles with: the screenshot's data URL,
\* nothing, or a rejection
Replies == {"screenshot", "nothing", "rejected"}

\* mutant: activate goes on to createOverlay without testing screenshotUrl
CaptureSettlesUnchecked(reply) ==
    /\ capturing > 0
    /\ capturing' = capturing - 1
    /\ lastReply' = reply
    /\ IF reply /= "rejected"
       THEN /\ overlays' = overlays + 1
            /\ canvases' = Append(canvases, FALSE)
            /\ UNCHANGED <<startedFor, value, hostLog, currentHSV, fields>>
       ELSE /\ UNCHANGED <<overlays, canvases>>
            /\ startedFor' = RemoveAt(startedFor, overlays + 1)
            /\ EyedropperPicked(NULL)
    /\ UNCHANGED <<rcVars, pureVars, cancelled, currentInput, pickerElement,
                   interactions, domPickers, window, position, swatches, listening, timers,
                   isDraggingSL, isDraggingHue, currentFormat, hidden>>

\* the capture request settles: with a screenshot the overlay is created; with
\* nothing, or on a rejection (caught), activate resolves to null and the
\* button's click handler goes on with that null
CaptureSettles(reply) ==
    /\ capturing > 0
    /\ capturing' = capturing - 1
    /\ lastReply' = reply
    /\ IF reply = "screenshot"
       THEN /\ overlays' = overlays + 1
            /\ canvases' = Append(canvases, FALSE)
            /\ UNCHANGED <<startedFor, value, hostLog, currentHSV, fields>>
       ELSE /\ UNCHANGED <<overlays, canvases>>
            /\ startedFor' = RemoveAt(startedFor, overlays + 1)
            /\ EyedropperPicked(NULL)
    /\ UNCHANGED <<rcVars, pureVars, cancelled, currentInput, pickerElement,
                   interactions, domPickers, window, position, swatches, listening, timers,
                   isDraggingSL, isDraggingHue, currentFormat, hidden>>

\* mutant: handleClick resolves without cleanup, the overlay stays attached
OverlayClickStaysAttached(color) ==
    /\ overlays > 0
    /\ cancelled' = FALSE
    /\ EyedropperPicked(color)
    /\ UNCHANGED <<rcVars, pureVars, capturing, overlays, canvases, startedFor,
                   lastReply, currentInput, pickerElement, interactions,
                   domPickers, window, position, swatches, listening, timers,
                   isDraggingSL, isDraggingHue, currentFormat, hidden>>

\* click on the overlay: cleanup, then resolve with the colour at the point
\* (null when the pixel cannot be read)
OverlayClick(color) ==
    /\ overlays > 0
    /\ overlays' = overlays - 1
    /\ canvases' = SubSeq(canvases, 1, Len(canvases) - 1)
    /\ startedFor' = RemoveAt(startedFor, overlays)
    /\ cancelled' = FALSE
    /\ EyedropperPicked(color)
    /\ UNCHANGED <<rcVars, pureVars, capturing, lastReply, currentInput,
                   pickerElement, interactions, domPickers, window, position, swatches, listening,
                   timers, isDraggingSL, isDraggingHue, currentFormat, hidden>>

\* mutant: Escape resolves with the colour under the pointer, as a click does
OverlayEscapePicks ==
    /\ overlays > 0
    /\ overlays' = overlays - 1
    /\ canvases' = SubSeq(canvases, 1, Len(canvases) - 1)
    /\ startedFor' = RemoveAt(startedFor, overlays)
    /\ cancelled' = TRUE
    /\ EyedropperPicked(CYAN)
    /\ UNCHANGED <<rcVars, pureVars, capturing, lastReply, currentInput,
                   pickerElement, interactions, domPickers, window, position, swatches, listening,
                   timers, isDraggingSL, isDraggingHue, currentFormat, hidden>>

\* Escape keydown on the focused overlay: stopPropagation keeps it from the
\* document's keydown listener; cleanup, then resolve with null
OverlayEscape ==
    /\ overlays > 0
    /\ overlays' = overlays - 1
    /\ canvases' = SubSeq(canvases, 1, Len(canvases) - 1)
    /\ startedFor' = RemoveAt(startedFor, overlays)
    /\ cancelled' = TRUE
    /\ EyedropperPicked(NULL)
    /\ UNCHANGED <<rcVars, pureVars, capturing, lastReply, currentInput,
                   pickerElement, interactions, domPickers, window, position, swatches, listening,
                   timers, isDraggingSL, isDraggingHue, currentFormat, hidden>>

\* window.innerWidth and window.innerHeight of the page under the overlay
Viewport == [innerWidth |-> 4, innerHeight |-> 3]

\* values of window.devicePixelRatio
Ratios == {I(1), R(3, 2)}

\* the screenshot as drawImage lays it on the overlay's canvas: pixel (px, py)
Screenshot(px, py) == <<(px * 40) % 256, (py * 60) % 256, 255>>

\* canvas.width and canvas.height: the viewport scaled by the pixel ratio
CanvasSize(ratio) ==
    [width |-> RFloor(RMul(I(Viewport.innerWidth), ratio)),
     height |-> RFloor(RMul(I(Viewport.innerHeight), ratio))]

\* ctx.getImageData(px, py, 1, 1).data: transparent black outside the canvas,
\* and everywhere until img.onload has drawn the screenshot
ImageData(drawn, px, py, size) ==
    IF drawn /\ px >= 0 /\ px < size.width /\ py >= 0 /\ py < size.height
    THEN Screenshot(px, py)
    ELSE <<0, 0, 0>>

\* Math.floor(e.clientX * devicePixelRatio), Math.floor(e.clientY * devicePixelRatio)
PixelAt(e, ratio) ==
    [x |-> RFloor(RMul(I(e.clientX), ratio)),
     y |-> RFloor(RMul(I(e.clientY), ratio))]

\* img.onload of the k-th overlay: the screenshot is drawn on its canvas
ImageLoads(k) ==
    /\ k \in 1..Len(canvases)
    /\ ~canvases[k]
    /\ canvases' = [canvases EXCEPT ![k] = TRUE]
    /\ UNCHANGED <<rcVars, ctlVars, intVars, pureVars, capturing, overlays,
                   cancelled, lastReply, startedFor>>

\* the colour handleClick reads at pixel p of a canvas
ColorAtPixel(drawn, p, size) == getColorAtPoint(ImageData(drawn, p.x, p.y, size))

\* handleClick(e) on the topmost overlay under the pixel ratio of the window
HandleOverlayClick(e, ratio) ==
    /\ overlays > 0
    /\ OverlayClick(ColorAtPixel(canvases[Len(canvases)], PixelAt(e, ratio),
                                 CanvasSize(ratio)))

\* mutant: the content script registers its listeners without awaiting load()
ContentScriptShowNoAwait(i) == show(i)

\* a click or focus on colour input i: the listeners that call show are
\* registered only once the awaited load() of the content script has settled
ContentScriptShow(i) ==
    /\ loads = 0
    /\ show(i)

(***************************************************************************)
(* Specifications                                                          *)
(***************************************************************************)
\* a first start: nothing stored, no request in flight
InitStore ==
    /\ stored = <<>>
    /\ writes = <<>>
    /\ loads = 0

\* the controller as constructed, no picker yet, the host inputs holding val
InitPickerWith(val) ==
    /\ currentInput = 0
    /\ pickerElement = FALSE
    /\ interactions = FALSE
    /\ domPickers = 0
    /\ window = InitialWindow
    /\ position = <<>>
    /\ swatches = <<>>
    /\ listening = FALSE
    /\ timers = 0
    /\ value = val
    /\ hostLog = <<>>
    /\ cancelled = FALSE
    /\ currentHSV = DefaultHSV
    /\ isDraggingSL = FALSE
    /\ isDraggingHue = FALSE
    /\ currentFormat = "hex"
    /\ hidden = {}
    /\ fields = NoFields
    /\ capturing = 0
    /\ overlays = 0
    /\ canvases = <<>>
    /\ lastReply = "none"
    /\ startedFor = <<>>

InitPicker == InitPickerWith([i \in Inputs |-> InitialValue(i)])

\* no pure function is being applied
InitPure ==
    /\ fnArg = NULL
    /\ fnResult = <<>>

\* a RecentColorsManager of any capacity up to MaxCap, used on its own
InitRC ==
    /\ colors = <<>>
    /\ maxColors \in (0..MaxCap) \cup {DefaultMaxColors}
    /\ lastAdded = NULL
    /\ InitStore
    /\ InitPicker
    /\ InitPure

RCAdd(color) ==
    /\ AddEffect(color)
    /\ UNCHANGED <<ctlVars, intVars, eyeVars, pureVars>>

\* each add's set request settles before the next add
NextRC ==
    \/ writes = <<>> /\ \E color \in RCStrings : RCAdd(color)
    \/ WriteSettles(TRUE)

SpecRC == InitRC /\ [][NextRC]_vars

\* pointer samples: inside the control, and beyond its right or top edge
SLPoints ==
    {[clientX |-> 110, clientY |-> 70], [clientX |-> 300, clientY |-> 0],
     [clientX |-> 60, clientY |-> 95]}

HuePoints ==
    {[clientX |-> 100, clientY |-> 135], [clientX |-> 200, clientY |-> 135],
     [clientX |-> 0, clientY |-> 135]}

\* the samples the lifecycle and edit specifications use
SLPoint == [clientX |-> 110, clientY |-> 70]

HuePoint == [clientX |-> 200, clientY |-> 135]

Keys == {"Escape", "Enter"}

Targets == {"outside", "picker", "currentInput", "overlay"}

\* texts typed into the hex field: valid without '#', and too short
HexTexts == {<<"0", "0", "F", "F", "F", "F">>, <<"#", "1", "2">>}

\* a field index and the text typed into that RGB or HSL field
RGBTexts == {<<2, <<"3", "0", "0">>>>}

HSLTexts == {<<1, <<"4", "0", "0">>>>}

\* the pixel under the pointer as getImageData gives it, <<>> when the read throws
Pixels == {<<0, 255, 255>>, <<>>}

\* what getColorAtPoint returns: a pixel's hex, or null
PixelColors == {getColorAtPoint(px) : px \in Pixels}

Init ==
    /\ colors = <<>>
    /\ maxColors = PickerCap
    /\ lastAdded = NULL
    /\ InitStore
    /\ InitPicker
    /\ InitPure

\* the picker's lifecycle: opening on either input, every way of closing, and
\* a press on the surface in between
Events ==
    \/ \E i \in Inputs : show(i)
    \/ TimerFires
    \/ \E key \in Keys : HandleKeydown(key)
    \/ HandleScroll
    \/ \E target \in Targets \ {"overlay"} : HandleOutsideClick(target)
    \/ \E key \in Keys : HandleFieldKeydown(key)
    \/ \E k \in 1..PickerCap : HandleRecentColorClick(k)
    \/ HandleSLMouseDown(SLPoint)

\* the store settles a set request before the page delivers its next event:
\* no handler of the controller reads the store or the requests in flight
Next ==
    \/ writes = <<>> /\ Events
    \/ WriteSettles(TRUE)

Spec == Init /\ [][Next]_vars

\* one picker session on the first input: the two drags
NextDrag ==
    \/ show(1)
    \/ \E e \in SLPoints : HandleSLMouseDown(e)
    \/ \E e \in HuePoints : HandleHueMouseDown(e)
    \/ \E e \in SLPoints \cup HuePoints : HandleMouseMove(e)
    \/ HandleMouseUp

SpecDrag == Init /\ [][NextDrag]_vars

\* one picker session on the first input: every handler that changes the colour
NextEdit ==
    \/ show(1)
    \/ HandleSLMouseDown(SLPoint)
    \/ HandleHueMouseDown(HuePoint)
    \/ \E text \in HexTexts : HandleHexInput(text)
    \/ \E p \in RGBTexts : HandleRGBInput(p[1], p[2])
    \/ \E p \in HSLTexts : HandleHSLInput(p[1], p[2])
    \/ HandleEyedropperClick
    \/ CaptureSettles("screenshot")
    \/ \E color \in PixelColors : OverlayClick(color)
    \/ OverlayEscape

SpecEdit == Init /\ [][NextEdit]_vars

\* the surface mapping as a pure function of the rect and the pointer
MaxSide == 3

MapSLArgs ==
    {[rect |-> [left |-> l, top |-> l, width |-> w, height |-> h],
      e |-> [clientX |-> x, clientY |-> y]] :
        l \in {0, 2}, w \in 1..MaxSide, h \in 1..MaxSide,
        x \in -1..(MaxSide + 3), y \in -1..(MaxSide + 3)}
    \cup {[rect |-> SLRect, e |-> [clientX |-> 110, clientY |-> 70]]}

InitMapSL ==
    /\ colors = <<>>
    /\ maxColors = PickerCap
    /\ lastAdded = NULL
    /\ InitStore
    /\ InitPicker
    /\ fnArg \in MapSLArgs
    /\ fnResult = <<>>

ApplyMapSL ==
    /\ fnResult = <<>>
    /\ fnResult' = <<MapSL(fnArg.e, fnArg.rect)>>
    /\ UNCHANGED <<rcVars, ctlVars, intVars, eyeVars, fnArg>>

SpecMapSL == InitMapSL /\ [][ApplyMapSL]_vars

\* every path that writes a host input: opening, a surface drag, hex typing,
\* an eyedropper pick and a recent-swatch click, with Enter to close in between
EventsNotify ==
    \/ show(1)
    \/ TimerFires
    \/ HandleFieldKeydown("Enter")
    \/ HandleSLMouseDown(SLPoint)
    \/ \E text \in HexTexts : HandleHexInput(text)
    \/ HandleEyedropperClick
    \/ CaptureSettles("screenshot")
    \/ \E color \in PixelColors : OverlayClick(color)
    \/ \E k \in 1..PickerCap : HandleRecentColorClick(k)

\* as in Next, set requests settle before the next event
NextNotify ==
    \/ writes = <<>> /\ EventsNotify
    \/ WriteSettles(TRUE)

SpecNotify == Init /\ [][NextNotify]_vars

(***************************************************************************)
(* PickerPositioning.calculatePosition as a pure function of the anchor    *)
(* rectangle, the panel size and the window                                *)
(***************************************************************************)
\* coordinates are sampled on a grid of 10 pixels, 0..10 * MaxGrid
MaxGrid == 3

\* the worked examples of the specification: viewport 1024 x 768 and 1024 x 500
PosExample(innerHeight) ==
    [rect |-> [top |-> 100, bottom |-> 130, left |-> 200, right |-> 300],
     picker |-> [offsetHeight |-> 400, offsetWidth |-> 300],
     win |-> [scrollX |-> 0, scrollY |-> 0,
              innerWidth |-> 1024, innerHeight |-> innerHeight]]

\* anchors 20 x 10, panels smaller and larger than the viewport, viewports of
\* 30 or 40 per side, scroll offsets negative, zero and positive
PosArgs ==
    {[rect |-> [top |-> 10 * t, bottom |-> 10 * t + 10,
                left |-> 10 * l, right |-> 10 * l + 20],
      picker |-> [offsetHeight |-> ph, offsetWidth |-> pw],
      win |-> [scrollX |-> sx, scrollY |-> sy,
               innerWidth |-> iw, innerHeight |-> ih]] :
        t \in 0..MaxGrid, l \in 0..MaxGrid,
        ph \in {10, 20, 50}, pw \in {10, 20, 50},
        sx \in {-10, 0, 15}, sy \in {-10, 0, 15},
        iw \in {30, 40}, ih \in {30, 40}}
    \cup {PosExample(768), PosExample(500)}

InitPos ==
    /\ colors = <<>>
    /\ maxColors = PickerCap
    /\ lastAdded = NULL
    /\ InitStore
    /\ InitPicker
    /\ fnArg \in PosArgs
    /\ fnResult = <<>>

ApplyCalculatePosition ==
    /\ fnResult = <<>>
    /\ fnResult' = <<calculatePosition(fnArg.picker, fnArg.rect, fnArg.win)>>
    /\ UNCHANGED <<rcVars, ctlVars, intVars, eyeVars, fnArg>>

SpecPos == InitPos /\ [][ApplyCalculatePosition]_vars

(***************************************************************************)
(* ColorConversions applied to sampled arguments                           *)
(***************************************************************************)
\* the hex digits a sampled channel is written with: 16 bytes per channel
SampleDigits == {"0", "3", "a", "f"}

\* '#' and six lowercase hex digits
HexSamples ==
    {Str7(a, b, c, d, e, f) :
        a \in SampleDigits, b \in SampleDigits, c \in SampleDigits,
        d \in SampleDigits, e \in SampleDigits, f \in SampleDigits}

InitRoundTrip ==
    /\ colors = <<>>
    /\ maxColors = PickerCap
    /\ lastAdded = NULL
    /\ InitStore
    /\ InitPicker
    /\ fnArg \in HexSamples
    /\ fnResult = <<>>

ApplyRoundTrip ==
    /\ fnResult = <<>>
    /\ fnResult' = <<hsvToHex(hexToHSV(fnArg))>>
    /\ UNCHANGED <<rcVars, ctlVars, intVars, eyeVars, fnArg>>

SpecRoundTrip == InitRoundTrip /\ [][ApplyRoundTrip]_vars

\* longest text handed to hexToRGB / hexToHSV
MaxTextLen == 7

\* a hex digit of each case, a letter that is no hex digit, and '#'
TextChars == {"#", "a", "F", "g"}

\* every text of at most MaxTextLen such characters, with null and undefined
HexInputs ==
    UNION {[1..k -> TextChars] : k \in 0..MaxTextLen} \cup {NULL, UNDEFINED}

InitMalformed ==
    /\ colors = <<>>
    /\ maxColors = PickerCap
    /\ lastAdded = NULL
    /\ InitStore
    /\ InitPicker
    /\ fnArg \in HexInputs
    /\ fnResult = <<>>

ApplyHexToRGB ==
    /\ fnResult = <<>>
    /\ fnResult' = <<[fn |-> "hexToRGB", rgb |-> hexToRGB(fnArg)]>>
    /\ UNCHANGED <<rcVars, ctlVars, intVars, eyeVars, fnArg>>

ApplyHexToHSV ==
    /\ fnResult = <<>>
    /\ fnResult' = <<[fn |-> "hexToHSV", hsv |-> hexToHSV(fnArg)]>>
    /\ UNCHANGED <<rcVars, ctlVars, intVars, eyeVars, fnArg>>

SpecMalformed == InitMalformed /\ [][ApplyHexToRGB \/ ApplyHexToHSV]_vars

\* s, v and l are sampled at k / WrapSteps of their range 0..100
WrapSteps == 10

Percentages == {R(100 * k, WrapSteps) : k \in 0..WrapSteps}

InitWrap ==
    /\ colors = <<>>
    /\ maxColors = PickerCap
    /\ lastAdded = NULL
    /\ InitStore
    /\ InitPicker
    /\ fnArg \in [s : Percentages, x : Percentages]
    /\ fnResult = <<>>

\* hsvToRGB at both ends of the hue range, with v = fnArg.x
ApplyHsvWrap ==
    /\ fnResult = <<>>
    /\ fnResult' = <<[fn |-> "hsvToRGB",
                      at360 |-> hsvToRGB(I(360), fnArg.s, fnArg.x),
                      at0 |-> hsvToRGB(I(0), fnArg.s, fnArg.x)]>>
    /\ UNCHANGED <<rcVars, ctlVars, intVars, eyeVars, fnArg>>

\* hslToRGB at both ends of the hue range, with l = fnArg.x
ApplyHslWrap ==
    /\ fnResult = <<>>
    /\ fnResult' = <<[fn |-> "hslToRGB",
                      at360 |-> hslToRGB(I(360), fnArg.s, fnArg.x),
                      at0 |-> hslToRGB(I(0), fnArg.s, fnArg.x)]>>
    /\ UNCHANGED <<rcVars, ctlVars, intVars, eyeVars, fnArg>>

SpecWrap == InitWrap /\ [][ApplyHsvWrap \/ ApplyHslWrap]_vars

\* clientX, clientY of clicks on the overlay
ClickPoints ==
    {[clientX |-> 1, clientY |-> 1], [clientX |-> 3, clientY |-> 2]}

\* one picker session with the eyedropper: the capture, the image load and the
\* click on the overlay, with the picker open or closed meanwhile
EventsEye ==
    \/ show(1)
    \/ TimerFires
    \/ HandleKeydown("Escape")
    \/ HandleOutsideClick("overlay")
    \/ HandleEyedropperClick
    \/ \E reply \in Replies : CaptureSettles(reply)
    \/ \E k \in 1..MaxActivations : ImageLoads(k)
    \/ \E e \in ClickPoints, ratio \in Ratios : HandleOverlayClick(e, ratio)

\* as in Next, set requests settle before the next event
NextEye ==
    \/ writes = <<>> /\ EventsEye
    \/ WriteSettles(TRUE)

SpecEye == Init /\ [][NextEye]_vars

(***************************************************************************)
(* The manager and the store on their own: set and get requests in flight  *)
(***************************************************************************)
MaxWrites == 2

MaxLoads == 1

\* strings passed to add in the store specifications
StoreStrings == {RED, GREEN}

\* add, save and load called while requests are in flight, each request
\* fulfilled or rejected
NextStore ==
    \/ Len(writes) < MaxWrites /\ \E color \in StoreStrings : RCAdd(color)
    \/ Len(writes) < MaxWrites /\ SaveCall
    \/ loads < MaxLoads /\ LoadStarts
    \/ \E ok \in BOOLEAN : LoadSettles(ok)
    \/ \E ok \in BOOLEAN : WriteSettles(ok)

SpecStore == Init /\ [][NextStore]_vars

\* adds whose set requests are all fulfilled, in the order they were made
NextPersist ==
    \/ Len(writes) < MaxWrites /\ \E color \in StoreStrings : RCAdd(color)
    \/ WriteSettles(TRUE)

SpecPersist == InitRC /\ [][NextPersist]_vars

\* inner sizes the window is resized to
WindowSizes ==
    {[innerWidth |-> 1024, innerHeight |-> 768],
     [innerWidth |-> 400, innerHeight |-> 500]}

\* the events the global listeners and the fields' keydown listeners receive,
\* with the eyedropper overlay up or not
EventsGlobal ==
    \/ \E i \in Inputs : show(i)
    \/ TimerFires
    \/ \E key \in Keys : HandleKeydown(key)
    \/ HandleScroll
    \/ \E size \in WindowSizes : HandleResize(size)
    \/ \E target \in Targets : HandleOutsideClick(target)
    \/ \E key \in Keys : HandleFieldKeydown(key)
    \/ HandleEyedropperClick
    \/ CaptureSettles("screenshot")
    \/ OverlayEscape

\* as in Next, set requests settle before the next event
NextGlobal ==
    \/ writes = <<>> /\ EventsGlobal
    \/ WriteSettles(TRUE)

SpecGlobal == Init /\ [][NextGlobal]_vars

\* texts typed into the hex field, each with and without a leading '#': two
\* colours in mixed case, a short text, a non-hex digit, one digit too many,
\* and nothing
HexBodies ==
    {<<"0", "0", "F", "F", "F", "F">>, <<"1", "a", "2", "B", "3", "c">>,
     <<"1", "2">>, <<"0", "0", "F", "F", "F", "G">>,
     <<"0", "0", "F", "F", "F", "F", "F">>, <<>>}

HexTypings == HexBodies \cup {<<"#">> \o body : body \in HexBodies}

\* one picker session on the first input: typing in the hex field between
\* presses on the surface
NextHex ==
    \/ show(1)
    \/ \E text \in HexTypings : HandleHexInput(text)
    \/ HandleSLMouseDown(SLPoint)
    \/ HandleMouseUp

SpecHex == Init /\ [][NextHex]_vars

\* picker sessions on the first input with the format toggle: typing in the
\* hex and RGB fields, a press on the surface, and a close with Enter before a
\* new show
EventsFormat ==
    \/ show(1)
    \/ HandleFormatToggle
    \/ HandleSLMouseDown(SLPoint)
    \/ \E text \in HexTexts : HandleHexInput(text)
    \/ \E p \in RGBTexts : HandleRGBInput(p[1], p[2])
    \/ HandleFieldKeydown("Enter")

\* as in Next, set requests settle before the next event
NextFormatSpec ==
    \/ writes = <<>> /\ EventsFormat
    \/ WriteSettles(TRUE)

SpecFormat == Init /\ [][NextFormatSpec]_vars

\* eyedropper activations that may be in flight together in SpecPick
MaxOverlapping == 2

\* pickers on either input with the eyedropper: activations started while
\* another is in flight, captures settling at any time, picks and cancels,
\* and the picker closed or moved to the other input meanwhile
EventsPick ==
    \/ \E i \in Inputs : show(i)
    \/ TimerFires
    \/ HandleKeydown("Escape")
    \/ ActivateWithin(MaxOverlapping)
    \/ \E reply \in Replies : CaptureSettles(reply)
    \/ \E color \in PixelColors : OverlayClick(color)
    \/ OverlayEscape

\* as in Next, set requests settle before the next event
NextPick ==
    \/ writes = <<>> /\ EventsPick
    \/ WriteSettles(TRUE)

SpecPick == Init /\ [][NextPick]_vars

\* picker sessions on the first input with overlapping eyedropper
\* activations: each overlay clicked or dismissed, the picker open or closed
EventsOverlay ==
    \/ show(1)
    \/ TimerFires
    \/ HandleKeydown("Escape")
    \/ ActivateWithin(MaxOverlapping)
    \/ \E reply \in Replies : CaptureSettles(reply)
    \/ \E color \in PixelColors : OverlayClick(color)
    \/ OverlayEscape

\* as in Next, set requests settle before the next event
NextOverlay ==
    \/ writes = <<>> /\ EventsOverlay
    \/ WriteSettles(TRUE)

SpecOverlay == Init /\ [][NextOverlay]_vars

\* picker sessions on the first input closed at any moment, a drag under way
\* included, with the events the page goes on delivering afterwards
EventsClosed ==
    \/ show(1)
    \/ TimerFires
    \/ HandleSLMouseDown(SLPoint)
    \/ HandleMouseMove(HuePoint)
    \/ HandleMouseUp
    \/ \E text \in HexTexts : HandleHexInput(text)
    \/ \E key \in Keys : HandleKeydown(key)
    \/ \E key \in Keys : HandleFieldKeydown(key)
    \/ HandleScroll

\* as in Next, set requests settle before the next event
NextClosed ==
    \/ writes = <<>> /\ EventsClosed
    \/ WriteSettles(TRUE)

SpecClosed == Init /\ [][NextClosed]_vars

\* values of the first host input when the page is loaded: '#' and six
\* lowercase hex digits
HostColors ==
    {Str7(a, "0", b, "f", c, "8") :
        a \in SampleDigits, b \in SampleDigits, c \in SampleDigits}

InitOpenClose ==
    /\ colors = <<>>
    /\ maxColors = PickerCap
    /\ lastAdded = NULL
    /\ InitStore
    /\ \E v \in HostColors :
           InitPickerWith([i \in Inputs |-> IF i = 1 THEN v ELSE InitialValue(i)])
    /\ InitPure

\* the picker of the first input opened and closed in every way, with no
\* colour interaction in between
EventsOpenClose ==
    \/ show(1)
    \/ TimerFires
    \/ \E key \in Keys : HandleKeydown(key)
    \/ \E key \in Keys : HandleFieldKeydown(key)
    \/ HandleScroll
    \/ \E target \in Targets \ {"overlay"} : HandleOutsideClick(target)

\* as in Next, set requests settle before the next event
NextOpenClose ==
    \/ writes = <<>> /\ EventsOpenClose
    \/ WriteSettles(TRUE)

SpecOpenClose == InitOpenClose /\ [][NextOpenClose]_vars

\* a list a previous session may have left in the store
StoredLists == {<<GREEN, BLUE>>}

\* the content script at its await: the manager is constructed and its load()
\* has sent the get request; the store is empty or holds an earlier list
InitStart ==
    /\ colors = <<>>
    /\ maxColors = PickerCap
    /\ lastAdded = NULL
    /\ stored \in {<<>>} \cup {<<L>> : L \in StoredLists}
    /\ writes = <<>>
    /\ loads = 1
    /\ InitPicker
    /\ InitPure

\* the page from the start of the content script: the load settling either
\* way, then pickers opened, used and closed
EventsStart ==
    \/ \E ok \in BOOLEAN : LoadSettles(ok)
    \/ \E i \in Inputs : ContentScriptShow(i)
    \/ TimerFires
    \/ HandleFieldKeydown("Enter")
    \/ \E k \in 1..PickerCap : HandleRecentColorClick(k)

\* as in Next, set requests settle before the next event
NextStart ==
    \/ writes = <<>> /\ EventsStart
    \/ WriteSettles(TRUE)

SpecStart == InitStart /\ [][NextStart]_vars


(***************************************************************************)
(* Claims                                                                  *)
(***************************************************************************)
SameIgnoringCase(a, b) == toLowerCase(a) = toLowerCase(b)

\* the entries of L that differ from c ignoring letter case, in their order
Others(L, c) == SelectSeq(L, LAMBDA x : ~SameIgnoringCase(x, c))

Present(L, c) == \E i \in 1..Len(L) : SameIgnoringCase(L[i], c)

\* C1: add(c) on a list L yields c followed by the entries of L that differ
\* from c ignoring letter case, in their previous order, cut to the first
\* maxColors entries; adding a new colour to a full list evicts only the last
\* entry, and re-adding a present colour moves it to the front and keeps the
\* order of the others.
C1_AddContract ==
    [][LET c == lastAdded'
           kept == <<c>> \o Others(colors, c)
       IN  /\ colors' = SubSeq(kept, 1, Min(maxColors, Len(kept)))
           /\ (maxColors >= 1 /\ Len(colors) = maxColors /\ ~Present(colors, c))
                 => colors' = <<c>> \o SubSeq(colors, 1, Len(colors) - 1)
           /\ (maxColors >= 1 /\ Present(colors, c))
                 => /\ Len(colors') = Len(colors)
                    /\ colors'[1] = c
                    /\ Tail(colors') = Others(colors, c)]_vars

\* a full list of three whose front entry was re-added in another letter case
C1_Witness ==
    /\ maxColors = 3
    /\ lastAdded = RED_UPPER
    /\ colors = <<RED_UPPER, BLUE, GREEN>>

\* C2: after any sequence of add calls from an empty list the list has at most
\* maxColors entries, for every maxColors >= 0 (so it is empty when maxColors = 0).
C2_AtMostMaxColors == Len(colors) <= maxColors

\* an add was made on a manager of capacity 0
C2_Witness ==
    /\ maxColors = 0
    /\ lastAdded /= NULL
    /\ colors = <<>>

\* C3: no two entries of the list are equal ignoring letter case, and when
\* maxColors >= 1 the first entry is exactly the string passed to the latest add.
C3_DistinctAndLatestFirst ==
    /\ \A i, j \in 1..Len(colors) :
           i /= j => ~SameIgnoringCase(colors[i], colors[j])
    /\ (maxColors >= 1 /\ lastAdded /= NULL)
           => (colors /= <<>> /\ colors[1] = lastAdded)

\* an upper-case string was added after another colour and sits first as passed
C3_Witness ==
    /\ lastAdded = GREEN_UPPER
    /\ colors = <<GREEN_UPPER, RED>>

\* C4: at most one picker element is attached to the page, for any sequence
\* of show calls on any inputs and of close calls.
C4_AtMostOnePicker == domPickers <= 1

\* a picker is open on the second input after one was closed before
C4_Witness ==
    /\ pickerElement
    /\ currentInput = 2
    /\ domPickers = 1
    /\ colors /= <<>>

\* the open picker is closed in this step: removed, or replaced by one for
\* another input
Closes == pickerElement /\ (~pickerElement' \/ currentInput' /= currentInput)

\* C5: whenever an open picker closes and the host value is non-empty, that
\* value is the first entry of the recent-colors list right after the close;
\* when the picker is opened for another input, the old input's value is in
\* the list before the new picker is created (it is the first swatch rendered).
C5_CloseAddsValue ==
    [][(Closes /\ value'[currentInput] /= <<>>)
          => /\ colors' /= <<>>
             /\ colors'[1] = value'[currentInput]
             /\ pickerElement' => (swatches' /= <<>>
                                   /\ swatches'[1] = value[currentInput])]_vars

\* the picker was switched from the first input to the second
C5_Witness ==
    /\ pickerElement
    /\ currentInput = 2
    /\ swatches /= <<>>
    /\ swatches[1] = value[1]
    /\ colors = swatches

AllPoints == SLPoints \cup HuePoints

Idle == ~isDraggingSL /\ ~isDraggingHue

\* C6: a control goes from idle to dragging only on a pointer-down on it, which
\* applies one mapping at once; a pointer-move applies a mapping while a control
\* is dragging and changes nothing while both are idle; a pointer-up puts both
\* controls in idle.
C6_DragStateMachine ==
    [][/\ (~isDraggingSL /\ isDraggingSL')
            => \E e \in SLPoints :
                   /\ HandleSLMouseDown(e)
                   /\ currentHSV'.s = MapSL(e, SLRect).s
                   /\ currentHSV'.v = MapSL(e, SLRect).v
       /\ (~isDraggingHue /\ isDraggingHue')
            => \E e \in HuePoints :
                   /\ HandleHueMouseDown(e)
                   /\ currentHSV'.h = MapHue(e, HueRect)
       /\ \A e \in AllPoints :
            HandleMouseMove(e)
               => /\ Idle => UNCHANGED <<currentHSV, value>>
                  /\ isDraggingSL => currentHSV'.s = MapSL(e, SLRect).s
                  /\ (~isDraggingSL /\ isDraggingHue)
                        => currentHSV'.h = MapHue(e, HueRect)
       /\ HandleMouseUp => (~isDraggingSL' /\ ~isDraggingHue')]_vars

\* the surface is being dragged and holds the mapped values
C6_Witness ==
    /\ isDraggingSL
    /\ ~isDraggingHue
    /\ currentHSV.s = I(50)
    /\ currentHSV.v = I(50)

ClampInt(n, hi) == IF n < 0 THEN 0 ELSE IF n > hi THEN hi ELSE n

\* C7: for a surface of width > 0 and height > 0 and any pointer position the
\* mapping gives s = clamp(x,0,width)/width*100 and
\* v = 100 - clamp(y,0,height)/height*100, both within [0,100]; a pointer at
\* (100,50) on a 200x100 surface gives s = 50, v = 50.
C7_SurfaceMapping ==
    fnResult /= <<>> =>
        LET r == fnArg.rect
            x == ClampInt(fnArg.e.clientX - r.left, r.width)
            y == ClampInt(fnArg.e.clientY - r.top, r.height)
            s == fnResult[1].s
            v == fnResult[1].v
        IN  /\ s.n * r.width = 100 * x * s.d
            /\ (100 * v.d - v.n) * r.height = 100 * y * v.d
            /\ 0 <= s.n /\ s.n <= 100 * s.d
            /\ 0 <= v.n /\ v.n <= 100 * v.d
            /\ (r.width = 200 /\ r.height = 100 /\ x = 100 /\ y = 50)
                  => (s = I(50) /\ v = I(50))

\* the pointer at (100,50) on the 200x100 surface was mapped
C7_Witness ==
    /\ fnResult /= <<>>
    /\ fnArg.rect.width = 200
    /\ fnArg.rect.height = 100
    /\ fnArg.e.clientX - fnArg.rect.left = 100
    /\ fnArg.e.clientY - fnArg.rect.top = 50
    /\ fnResult[1] = [s |-> I(50), v |-> I(50)]

\* a mapping on the surface, and one on the hue track, happen in this step
SurfaceMapping ==
    \E e \in AllPoints :
        HandleSLMouseDown(e) \/ (isDraggingSL /\ HandleMouseMove(e))

TrackMapping ==
    \E e \in AllPoints :
        HandleHueMouseDown(e)
            \/ (~isDraggingSL /\ isDraggingHue /\ HandleMouseMove(e))

\* C8: a mapping on the surface leaves h unchanged; a mapping on the hue
\* track leaves s and v unchanged.
C8_MappingFrame ==
    [][/\ SurfaceMapping => currentHSV'.h = currentHSV.h
       /\ TrackMapping => (currentHSV'.s = currentHSV.s
                           /\ currentHSV'.v = currentHSV.v)]_vars

\* both mappings were applied: hue from the track, s and v from the surface
C8_Witness ==
    /\ interactions
    /\ currentHSV = [h |-> I(180), s |-> I(50), v |-> I(50)]

\* C9: in every reachable state the hue of the picker's HSV state satisfies
\* 0 <= h < 360.
C9_HueInRange == RLe(I(0), currentHSV.h) /\ RLt(currentHSV.h, I(360))

\* C10: while a picker is open, after every handler that changes the colour the
\* host input's value equals hsvToHex of the picker's current HSV state.
C10_HostFollowsHSV ==
    pickerElement => value[currentInput] = hsvToHex(currentHSV)

\* an eyedropper pick wrote cyan to the host and to the fields
C10_Witness ==
    /\ pickerElement
    /\ value[currentInput] = CYAN
    /\ fields.hex = toUpperCase(CYAN)
    /\ currentHSV = [h |-> I(180), s |-> I(100), v |-> I(100)]

\* C11: every write of a colour to a host input is followed, within the same
\* handler, by an 'input' and then a 'change' notification on that host, both
\* dispatched after the value was written.
C11_WriteThenInputThenChange ==
    [][\A i \in Inputs :
          value'[i] /= value[i]
          => hostLog' = <<[op |-> "write", host |-> i, value |-> value'[i]],
                          [op |-> "input", host |-> i, value |-> value'[i]],
                          [op |-> "change", host |-> i, value |-> value'[i]]>>]_vars

\* a swatch click wrote a recent colour to the host, notified it and closed
C11_Witness ==
    /\ ~pickerElement
    /\ Len(hostLog) = 3
    /\ hostLog[3] = [op |-> "change", host |-> 1, value |-> RED]
    /\ Len(colors) = 2
    /\ colors[1] = RED
    /\ colors[2] = CYAN

\* a valid edit of the hex field, of an RGB field, of an HSL field
ValidHexEdit == \E text \in HexTexts : IsHashHex6(WithHash(text)) /\ HandleHexInput(text)

RGBEdit == \E p \in RGBTexts : HandleRGBInput(p[1], p[2])

HSLEdit == \E p \in HSLTexts : HandleHSLInput(p[1], p[2])

\* the texts the three field groups would show for the colour hsv
Derived(hsv) ==
    FieldTexts(toUpperCase(rgbToHexString(hsvToRGB(hsv.h, hsv.s, hsv.v))),
               hsvToRGB(hsv.h, hsv.s, hsv.v),
               rgbRecToHSL(hsvToRGB(hsv.h, hsv.s, hsv.v)))

\* C12: after a valid edit in one format's field, the fields of the other two
\* formats show the values derived from the new colour.
C12_OtherFieldsFollow ==
    [][/\ ValidHexEdit => /\ fields'.rgb = Derived(currentHSV').rgb
                          /\ fields'.hsl = Derived(currentHSV').hsl
       /\ RGBEdit => /\ fields'.hex = Derived(currentHSV').hex
                     /\ fields'.hsl = Derived(currentHSV').hsl
       /\ HSLEdit => /\ fields'.hex = Derived(currentHSV').hex
                     /\ fields'.rgb = Derived(currentHSV').rgb]_vars

\* C13: calculatePosition returns top >= 0 and left >= 0 for every anchor
\* rectangle, panel size, viewport size and scroll offset.
C13_PositionNeverNegative ==
    (fnArg \in PosArgs /\ fnResult /= <<>>)
        => (fnResult[1].top >= 0 /\ fnResult[1].left >= 0)

\* a negative scroll offset and a panel larger than the viewport in both axes
C13_Witness ==
    /\ fnArg \in PosArgs
    /\ fnArg.win.scrollX < 0
    /\ fnArg.win.scrollY < 0
    /\ fnArg.picker.offsetHeight > fnArg.win.innerHeight
    /\ fnArg.picker.offsetWidth > fnArg.win.innerWidth
    /\ fnResult = <<[top |-> 0, left |-> 0]>>

\* the reference position for argument a, before the floor at 0
RefTop(a) ==
    IF a.rect.bottom + a.picker.offsetHeight > a.win.innerHeight
    THEN a.rect.top + a.win.scrollY - a.picker.offsetHeight - 5
    ELSE a.rect.bottom + a.win.scrollY + 5

RefLeft(a) ==
    IF a.rect.left + a.picker.offsetWidth > a.win.innerWidth
    THEN a.win.innerWidth - a.picker.offsetWidth - 10 + a.win.scrollX
    ELSE a.rect.left + a.win.scrollX

AtBottomEdge(a) == a.rect.bottom + a.picker.offsetHeight = a.win.innerHeight

AtRightEdge(a) == a.rect.left + a.picker.offsetWidth = a.win.innerWidth

\* C14: calculatePosition equals the reference: below the anchor with a gap of
\* 5 unless the panel would pass the viewport's bottom, then above it; aligned
\* with the anchor's left unless the panel would pass the viewport's right,
\* then 10 short of the right edge; each floored at 0. At equality the panel
\* stays below and left-aligned. The two worked examples give (135, 200) and
\* (0, 200).
C14_PositionReference ==
    (fnArg \in PosArgs /\ fnResult /= <<>>)
        => /\ fnResult[1].top = (IF RefTop(fnArg) < 0 THEN 0 ELSE RefTop(fnArg))
           /\ fnResult[1].left = (IF RefLeft(fnArg) < 0 THEN 0 ELSE RefLeft(fnArg))
           /\ AtBottomEdge(fnArg) /\ fnArg.win.scrollY >= 0
                => fnResult[1].top = fnArg.rect.bottom + fnArg.win.scrollY + 5
           /\ AtRightEdge(fnArg) /\ fnArg.win.scrollX >= 0
                => fnResult[1].left = fnArg.rect.left + fnArg.win.scrollX
           /\ fnArg = PosExample(768) => fnResult[1] = [top |-> 135, left |-> 200]
           /\ fnArg = PosExample(500) => fnResult[1] = [top |-> 0, left |-> 200]

\* the panel ends exactly at the viewport's bottom and right edges
C14_Witness ==
    /\ fnArg \in PosArgs
    /\ AtBottomEdge(fnArg)
    /\ AtRightEdge(fnArg)
    /\ fnArg.win.scrollX = 0
    /\ fnArg.win.scrollY = 0
    /\ fnResult = <<[top |-> fnArg.rect.bottom + 5, left |-> fnArg.rect.left]>>

\* the anchor lies inside the viewport, the panel fits with its margins, and
\* the page is not scrolled to a negative offset
FitsViewport(a) ==
    /\ 0 <= a.rect.top /\ a.rect.bottom <= a.win.innerHeight
    /\ 0 <= a.rect.left /\ a.rect.right <= a.win.innerWidth
    /\ a.picker.offsetWidth + 10 <= a.win.innerWidth
    /\ a.picker.offsetHeight + 5 <= a.win.innerHeight
    /\ a.win.scrollX >= 0
    /\ a.win.scrollY >= 0

\* C15: for such an argument the positioned panel stays inside the visible
\* viewport in both axes.
C15_PanelInsideViewport ==
    (fnArg \in PosArgs /\ fnResult /= <<>> /\ FitsViewport(fnArg))
        => /\ 0 <= fnResult[1].top - fnArg.win.scrollY
           /\ fnResult[1].top - fnArg.win.scrollY + fnArg.picker.offsetHeight
                <= fnArg.win.innerHeight
           /\ 0 <= fnResult[1].left - fnArg.win.scrollX
           /\ fnResult[1].left - fnArg.win.scrollX + fnArg.picker.offsetWidth
                <= fnArg.win.innerWidth

\* C16: for every valid 6-digit lowercase hex string h,
\* hsvToHex(hexToHSV(h)) = h exactly.
C16_HexRoundTrip ==
    (fnArg \in HexSamples /\ fnResult /= <<>>) => fnResult[1] = fnArg

\* a colour with three different channels went through HSV and came back
C16_Witness ==
    /\ fnArg = Str7("0", "3", "a", "f", "3", "0")
    /\ fnResult = <<fnArg>>

\* an optional '#' followed by exactly six hex digits
WellFormedHex(t) ==
    /\ t /= NULL
    /\ t /= UNDEFINED
    /\ \/ Len(t) = 6 /\ \A i \in 1..6 : t[i] \in {"a", "F"}
       \/ Len(t) = 7 /\ t[1] = "#" /\ \A i \in 2..7 : t[i] \in {"a", "F"}

\* C17: for every malformed hex input (too short, too long, a non-hex
\* character, null, undefined, the empty string) hexToRGB returns black and
\* hexToHSV returns h = s = v = 0.
C17_MalformedHexIsBlack ==
    (fnArg \in HexInputs /\ fnResult /= <<>> /\ ~WellFormedHex(fnArg))
        => /\ fnResult[1].fn = "hexToRGB"
                => fnResult[1].rgb = [r |-> 0, g |-> 0, b |-> 0]
           /\ fnResult[1].fn = "hexToHSV"
                => fnResult[1].hsv = [h |-> I(0), s |-> I(0), v |-> I(0)]

\* seven hex digits without '#': one too many
C17_Witness ==
    /\ fnArg = <<"a", "F", "a", "F", "a", "F", "a">>
    /\ fnResult = <<[fn |-> "hexToRGB", rgb |-> [r |-> 0, g |-> 0, b |-> 0]]>>

\* C18: hsvToRGB(360, s, v) = hsvToRGB(0, s, v) for all s, v in [0,100], and
\* hslToRGB(360, s, l) = hslToRGB(0, s, l) for all s, l in [0,100].
C18_HueWrap ==
    (fnArg \in [s : Percentages, x : Percentages] /\ fnResult /= <<>>)
        => fnResult[1].at360 = fnResult[1].at0

\* full saturation and value: both ends of the hue range are pure red
C18_Witness ==
    /\ fnArg = [s |-> I(100), x |-> I(100)]
    /\ fnResult = <<[fn |-> "hsvToRGB",
                     at360 |-> [r |-> 255, g |-> 0, b |-> 0],
                     at0 |-> [r |-> 255, g |-> 0, b |-> 0]]>>

\* '#' followed by six lowercase hex digits
IsLowerHex7(t) ==
    /\ Len(t) = 7
    /\ t[1] = "#"
    /\ \A i \in 2..7 : \E k \in 1..16 : t[i] = HexDigits[k]

\* C19: every value the picker writes to the host input through a drag
\* mapping, a text edit or an eyedropper pick is '#' followed by six lowercase
\* hex digits, zero-padded per channel.
C19_HostValueFormat ==
    hostLog /= <<>> => /\ IsLowerHex7(hostLog[1].value)
                       /\ value[hostLog[1].host] = hostLog[1].value

\* the hue thumb at the right end of the track, on full saturation and value
C19_Witness ==
    /\ pickerElement
    /\ currentHSV = [h |-> I(360), s |-> I(100), v |-> I(100)]
    /\ hostLog[1].value = RED

\* C20: Escape on the active eyedropper overlay removes the overlay and
\* resolves the activation to null: the picker stays as it was, and the host
\* input's value and the picker's HSV state are unchanged.
C20_EscapeCancelsEyedropper ==
    [][OverlayEscape => /\ overlays' = overlays - 1
                        /\ pickerElement' = pickerElement
                        /\ currentInput' = currentInput
                        /\ value' = value
                        /\ hostLog' = hostLog
                        /\ currentHSV' = currentHSV
                        /\ fields' = fields]_vars

\* an overlay opened from an edited picker was dismissed with Escape
C20_Witness ==
    /\ cancelled
    /\ overlays = 0
    /\ pickerElement
    /\ currentHSV = [h |-> I(360), s |-> I(100), v |-> I(100)]
    /\ value[currentInput] = RED

\* the pixel the claim names for a click at e: (floor(x * ratio), floor(y * ratio))
ClaimedPixel(e, ratio) ==
    Screenshot((e.clientX * ratio.n) \div ratio.d, (e.clientY * ratio.n) \div ratio.d)

\* C21: a click on the eyedropper overlay at (x, y) with the picker open makes
\* the hex of the captured pixel at (floor(x * devicePixelRatio),
\* floor(y * devicePixelRatio)) the host input's value, re-derives the
\* picker's HSV state from it, removes the overlay and keeps the picker open
C21_OverlayClickPicksCapturedPixel ==
    [][\A e \in ClickPoints, ratio \in Ratios :
         (HandleOverlayClick(e, ratio) /\ pickerElement /\ currentInput /= 0) =>
             /\ value'[currentInput] = getColorAtPoint(ClaimedPixel(e, ratio))
             /\ currentHSV' = hexToHSV(getColorAtPoint(ClaimedPixel(e, ratio)))
             /\ overlays' = overlays - 1
             /\ pickerElement'
             /\ currentInput' = currentInput]_vars

\* the same once img.onload has drawn the screenshot on the overlay's canvas
C21_AfterImageLoad ==
    [][\A e \in ClickPoints, ratio \in Ratios :
         (/\ HandleOverlayClick(e, ratio)
          /\ pickerElement /\ currentInput /= 0
          /\ canvases[Len(canvases)]) =>
             /\ value'[currentInput] = getColorAtPoint(ClaimedPixel(e, ratio))
             /\ currentHSV' = hexToHSV(getColorAtPoint(ClaimedPixel(e, ratio)))
             /\ overlays' = overlays - 1
             /\ pickerElement'
             /\ currentInput' = currentInput]_vars

\* C22: when the screenshot capture request is rejected or returns nothing,
\* activate resolves to null: no overlay is created, and the host inputs'
\* values, the notifications sent, the picker's HSV state and fields, and the
\* recent-colors list are what they were
C22_FailedCaptureChangesNothing ==
    [][\A reply \in Replies \ {"screenshot"} :
         CaptureSettles(reply) =>
             /\ overlays' = overlays
             /\ canvases' = canvases
             /\ value' = value
             /\ hostLog' = hostLog
             /\ currentHSV' = currentHSV
             /\ fields' = fields
             /\ colors' = colors]_vars

\* a capture was rejected while the picker was open, and no overlay is up
C22_Witness ==
    /\ lastReply = "rejected"
    /\ pickerElement
    /\ capturing = 0
    /\ overlays = 0

\* C23: a rejected get or set request leaves the in-memory list exactly as it
\* was (load and save catch the error), and an add made at any later point
\* still puts its colour at the front of the in-memory list
C23_StorageFailureKeepsList ==
    [][/\ (LoadSettles(FALSE) \/ WriteSettles(FALSE)) => colors' = colors
       /\ \A color \in StoreStrings :
            RCAdd(color) =>
                /\ Len(colors') = Min(maxColors, Len(Others(colors, color)) + 1)
                /\ colors'[1] = color
                /\ Tail(colors') = SubSeq(Others(colors, color), 1, Len(colors') - 1)]_vars

\* every set request so far was rejected (nothing is stored), none is in
\* flight, and the list holds the colours of two adds
C23_Witness ==
    /\ stored = <<>>
    /\ writes = <<>>
    /\ loads = 0
    /\ Len(colors) = 2
    /\ colors[1] = lastAdded

\* C24: once no set request is in flight, all of them having been fulfilled,
\* the stored list is the in-memory list, and a new manager that loads gets
\* the same entries in the same order
C24_PersistedEqualsMemory ==
    (writes = <<>> /\ lastAdded /= NULL) =>
        /\ stored = <<colors>>
        /\ loadResult(stored, <<>>) = colors

\* adds have filled a list of capacity 2 and all their requests are settled
C24_Witness ==
    /\ writes = <<>>
    /\ maxColors = 2
    /\ colors = <<GREEN, RED>>
    /\ stored = <<colors>>

\* C25: whenever no picker is open, none of the controller's global listeners
\* (outside mousedown, scroll, resize, keydown) and none of the interaction
\* layer's document mousemove and mouseup listeners is registered
C25_ListenersReleasedWhenClosed ==
    ~pickerElement => (~listening /\ ~interactions)

\* C26: show(input) while a picker is open for that same input changes
\* nothing: no picker element is created or removed, the picker's HSV state
\* and drag flags are kept, the recent-colors list and its swatches are
\* unchanged, no listener registration is scheduled and the host input is not
\* written or notified
C26_ShowSameInputChangesNothing ==
    [][\A i \in Inputs :
         (pickerElement /\ currentInput = i /\ show(i)) =>
             /\ pickerElement' /\ currentInput' = i
             /\ domPickers' = domPickers
             /\ currentHSV' = currentHSV
             /\ isDraggingSL' = isDraggingSL
             /\ isDraggingHue' = isDraggingHue
             /\ colors' = colors
             /\ swatches' = swatches
             /\ timers' = timers
             /\ value' = value
             /\ hostLog' = hostLog]_vars

\* a picker is open on the second input with the surface pressed and its colour
\* moved away from the one show derived: a state in which show(2) returns at once
C26_Witness ==
    /\ pickerElement
    /\ currentInput = 2
    /\ isDraggingSL
    /\ currentHSV /= hexToHSV(InitialValue(2))
    /\ timers < MaxTimers

\* the closed state: the picker element is removed and there is no current input
Closed == ~pickerElement /\ domPickers = 0 /\ currentInput = 0 /\ position = <<>>

Hashed(text) == IF text /= <<>> /\ Head(text) = "#" THEN text ELSE <<"#">> \o text

\* '#' followed by exactly six hex digits of either case
IsColorText(str) ==
    /\ Len(str) = 7
    /\ Head(str) = "#"
    /\ \A i \in 2..7 : \E k \in 1..16 : toLowerCase(<<str[i]>>) = <<HexDigits[k]>>

\* C29: typing in the hex field updates the colour if and only if the text,
\* with '#' prepended when it does not start with '#', is '#' followed by
\* exactly 6 hex digits: then the host input's value becomes that colour in
\* lowercase '#rrggbb' and is notified; otherwise the picker's HSV state and
\* the host input's value are unchanged and no notification is dispatched
C29_HexFieldTyping ==
    [][\A text \in HexTypings :
         (pickerElement /\ HandleHexInput(text)) =>
             IF IsColorText(Hashed(text))
             THEN /\ value' = [value EXCEPT ![currentInput] = toLowerCase(Hashed(text))]
                  /\ hostLog' = HostEffects(currentInput, toLowerCase(Hashed(text)))
                  /\ hsvToHex(currentHSV') = toLowerCase(Hashed(text))
             ELSE /\ currentHSV' = currentHSV
                  /\ value' = value
                  /\ hostLog' = hostLog]_vars

\* a colour was typed in mixed case without '#', and the host input holds it
\* in lowercase with '#'
C29_Witness ==
    /\ pickerElement
    /\ fields.hex = <<"1", "a", "2", "B", "3", "c">>
    /\ value[1] = <<"#", "1", "a", "2", "b", "3", "c">>

\* the field containers shown: those without the class bcp-hidden
Visible == {"hex", "rgb", "hsl"} \ hidden

\* C30: the displayed format starts at hex and goes hex, rgb, hsl, hex on
\* successive clicks of the format toggle; in every state of an open picker
\* exactly one of the three field containers is visible, the one of the
\* current format; and a toggle leaves the picker's HSV state and the host
\* input's value unchanged
C30_FormatCycle ==
    [][/\ pickerElement' => Visible' = {currentFormat'}
       /\ (~pickerElement /\ pickerElement') => currentFormat' = "hex"
       /\ HandleFormatToggle =>
            /\ currentFormat = "hex" => currentFormat' = "rgb"
            /\ currentFormat = "rgb" => currentFormat' = "hsl"
            /\ currentFormat = "hsl" => currentFormat' = "hex"
            /\ currentHSV' = currentHSV
            /\ value' = value]_vars

\* two clicks on the toggle after a colour was typed: HSL is displayed
C30_Witness ==
    /\ pickerElement
    /\ currentFormat = "hsl"
    /\ Visible = {"hsl"}
    /\ value[1] = CYAN

\* the entries of a list, as a set
Entries(L) == {L[n] : n \in 1..Len(L)}

\* C31: clicking a recent-color swatch while a picker is open writes that
\* colour to the current host input and leaves the picker closed; the
\* recent-colors list then holds the same entries as before the click, the
\* clicked colour first and present once: the add of the click handler and
\* the add of close have the effect of a single add
C31_RecentColorClick ==
    [][\A k \in 1..PickerCap :
         (pickerElement /\ currentInput /= 0 /\ HandleRecentColorClick(k)) =>
             /\ value'[currentInput] = swatches[k]
             /\ \A i \in Inputs \ {currentInput} : value'[i] = value[i]
             /\ Closed'
             /\ colors' = <<swatches[k]>> \o Others(colors, swatches[k])
             /\ Entries(colors') = Entries(colors)
             /\ colors' = add(colors, swatches[k], maxColors)]_vars

\* the second swatch of the picker of the second input was clicked: the input
\* holds the first input's colour, which moved to the head of the list
C31_Witness ==
    /\ Closed
    /\ value[2] = RED
    /\ hostLog = HostEffects(2, RED)
    /\ colors = <<RED, CYAN>>

\* C32: the drag target is always one of none, saturation, hue: in every
\* reachable state at most one of the two controls is in the dragging state,
\* for any sequence of pointer-downs on either control, pointer-moves and
\* pointer-ups, two pointer-downs with no pointer-up between them included
C32_AtMostOneDragging == ~(isDraggingSL /\ isDraggingHue)

\* C33: a colour picked with the eyedropper is written to a host input only
\* if that input is the one whose picker started the activation: when that
\* picker was closed, or a picker for another input was opened, between the
\* eyedropper click and the pick, no other input's value is changed
C33_PickGoesToStarter ==
    [][\A color \in PixelColors :
         (overlays > 0 /\ OverlayClick(color)) =>
             \A i \in Inputs \ {startedFor[overlays]} : value'[i] = value[i]]_vars

\* C34: at most one eyedropper overlay is attached to the page at any time,
\* for any sequence of eyedropper-button clicks and any timing of the
\* screenshot capture responses
C34_AtMostOneOverlay == overlays <= 1

\* C35: each eyedropper overlay resolves its promise at most once, by the
\* first overlay click or Escape keydown; from that moment the overlay is
\* detached and its listeners are removed, so no later event on it yields a
\* second result or a second write to a host input: every click or Escape on
\* an overlay ends exactly one activation and detaches its overlay, and a
\* host input is written by the eyedropper only in such a step
C35_OverlayResolvesOnce ==
    [][/\ ((\E color \in PixelColors : OverlayClick(color)) \/ OverlayEscape)
            => /\ overlays' = overlays - 1
               /\ Len(canvases') = overlays'
               /\ capturing' = capturing
               /\ Len(startedFor') = Len(startedFor) - 1
       /\ (hostLog' /= hostLog /\ pickerElement' = pickerElement
                               /\ currentInput' = currentInput)
            => /\ overlays' = overlays - 1
               /\ hostLog' = HostEffects(currentInput, value'[currentInput])
       /\ Len(startedFor') = capturing' + overlays']_vars

\* of two overlays attached together one was clicked and its colour written
\* to the first input; the other is still attached, its activation in flight
C35_Witness ==
    /\ overlays = 1
    /\ capturing = 0
    /\ startedFor = <<1>>
    /\ ~cancelled
    /\ pickerElement /\ currentInput = 1
    /\ value[1] = CYAN
    /\ hostLog = HostEffects(1, CYAN)

\* C36: after a picker closes, even in the middle of a drag, no later
\* pointer-move, pointer-up, key or text event changes the host input's
\* value, dispatches a notification to it, or changes the recent-colors list,
\* until show is called again: a step that starts and ends with no picker
\* leaves the host inputs, their notifications and the list as they were
C36_NothingAfterClose ==
    [][(~pickerElement /\ ~pickerElement')
          => UNCHANGED <<value, hostLog, colors, lastAdded, currentHSV>>]_vars

\* the picker of the first input was closed after its colour was changed and
\* before the deferred registration ran: the document's listeners are
\* registered with no picker open, so key and scroll events are still received
C36_Witness ==
    /\ Closed
    /\ ~interactions
    /\ listening
    /\ value[1] /= InitialValue(1)
    /\ colors = <<value[1]>>

\* C37: opening the picker on a host input whose value is a valid lowercase
\* '#rrggbb' and closing it without any colour interaction leaves the host
\* input's value equal to what it was before the open: neither the open nor
\* any way of closing changes a host value
C37_OpenCloseKeepsValue == [][value' = value]_vars

\* the picker of an input holding #30afF8 in lowercase was opened, which wrote
\* and notified that same value, and closed, which added it to the list
C37_Witness ==
    /\ Closed
    /\ value[1] = Str7("3", "0", "a", "f", "f", "8")
    /\ hostLog = HostEffects(1, value[1])
    /\ colors = <<value[1]>>

\* C38: after every completed show or close call, the controller's
\* pickerElement, currentInput and interactions are either all set (picker
\* open for currentInput) or all null (closed); close on a closed controller
\* changes nothing, the recent-colors list included
C38_AllSetOrAllNull ==
    [][/\ \/ pickerElement' /\ currentInput' \in Inputs /\ interactions'
          \/ ~pickerElement' /\ currentInput' = 0 /\ ~interactions'
       /\ (~pickerElement /\ (HandleScroll \/ HandleKeydown("Escape")))
             => UNCHANGED vars
       /\ (~pickerElement /\ ~pickerElement')
             => UNCHANGED <<colors, lastAdded, value, hostLog, currentInput,
                            interactions, domPickers>>]_vars

\* no picker is open and the scroll listener is registered by a deferred
\* registration that ran after the close: a scroll event calls close on the
\* closed controller
C38_Witness ==
    /\ ~pickerElement /\ currentInput = 0 /\ ~interactions
    /\ listening
    /\ timers = 0
    /\ Len(colors) = 2

\* C39: the load of the persisted recent-colors list completes before any
\* picker can be shown, so no add precedes or overlaps load and load never
\* overwrites an entry added in the current session; the in-memory list is
\* mutated only by load at start-up and by add on the close/select path
C39_LoadBeforeAnyPicker ==
    /\ [](loads > 0 => /\ ~pickerElement
                       /\ lastAdded = NULL
                       /\ colors = <<>>
                       /\ writes = <<>>)
    /\ [][colors' /= colors =>
            \/ /\ loads > 0 /\ loads' = 0
               /\ lastAdded = NULL
               /\ colors' = loadResult(stored, colors)
            \/ /\ loads = 0
               /\ Closes
               /\ colors' = add(colors, value'[currentInput], maxColors)]_vars

\* the list of an earlier session was loaded, then a picker was opened and
\* closed: its colour is in front of the loaded entry, and stored
C39_Witness ==
    /\ loads = 0
    /\ Closed
    /\ colors = <<RED, GREEN>>
    /\ stored = <<colors>>
    /\ writes = <<>>

=============================================================================
